---- MODULE Spec2Model ----
(***************************************************************************)
(* hq-go-url: the domain parser (public-suffix matcher), the URL parser    *)
(* and the URL extractor.                                                  *)
(*                                                                         *)
(* A string is a sequence of one-character strings.  The parser's suffix   *)
(* index is the byte string handed to suffixarray.New, and Lookup is the   *)
(* substring search index/suffixarray performs on it.                      *)
(***************************************************************************)
EXTENDS Integers, Sequences, FiniteSets, TLC

VARIABLES sa, built, customised, pc, unparsed, parsed, domain,
          reparsed,
          scheme, call, heap,
          withScheme, withSchemePattern, withHost, withHostPattern,
          epc, regex, text, found,
          tlds, schemes, domainExtractor

\* the domain parser, its arguments and results
pvars == <<sa, built, customised, pc, unparsed, parsed, domain>>

\* the result of a second Parse call on the same parser
rvars == <<reparsed>>

\* the URL parser's default scheme, the Parse calls in progress on it and
\* the records they allocated
cvars == <<scheme, call, heap>>

\* the extractor's fields, the matcher it compiled, the text handed to
\* FindAllString and the matches returned
evars == <<withScheme, withSchemePattern, withHost, withHostPattern,
           epc, regex, text, found>>

\* the suffix lists of package tlds, the scheme lists of package schemes,
\* which every extractor reads, and the fields of the domain extractor
tvars == <<tlds, schemes, domainExtractor>>

vars == <<pvars, rvars, cvars, evars, tvars>>

-----------------------------------------------------------------------------
(* Bounds of the model.                                                    *)

\* most labels of a host handed to Parse
MaxLabels == 3

\* most entries of a custom suffix list handed to WithTLDs
MaxTLDs == 2

-----------------------------------------------------------------------------
(* Characters and strings.                                                 *)

\* the separator byte "\x00" of the index data
NUL == "NUL"

\* a character beyond ASCII: a letter of unicodes.AllowedUcsChar that is no
\* punctuation
UcsChar == "U+4E2D"

\* the label separator "."
Dot == "."

\* strings.Join(parts, sep): parts is a sequence of strings, sep one character
RECURSIVE Join(_, _)
Join(parts, sep) ==
    IF Len(parts) = 0 THEN <<>>
    ELSE IF Len(parts) = 1 THEN parts[1]
    ELSE parts[1] \o <<sep>> \o Join(Tail(parts), sep)

\* strings.Split(s, sep): always at least one part; Split("") is one empty part
RECURSIVE SplitFrom(_, _, _)
SplitFrom(s, sep, cur) ==
    IF Len(s) = 0 THEN <<cur>>
    ELSE IF Head(s) = sep THEN <<cur>> \o SplitFrom(Tail(s), sep, <<>>)
    ELSE SplitFrom(Tail(s), sep, Append(cur, Head(s)))

Split(s, sep) == SplitFrom(s, sep, <<>>)

\* the Go slice parts[i:] for a 0-based index i
SliceFrom(parts, i) == SubSeq(parts, i + 1, Len(parts))

\* the Go slice parts[:i] for a 0-based index i
SliceTo(parts, i) == SubSeq(parts, 1, i)

-----------------------------------------------------------------------------
(* The inputs.  Letters abbreviate whole labels: "a" and "b" are two       *)
(* different labels, "A" is "a" in upper case, "ab" is a label that        *)
(* contains both as substrings (as "com" contains "co" and "om").          *)

\* the labels a host is made of (the empty label gives leading, trailing and
\* consecutive dots)
LabelSet == { <<>>, <<"a">>, <<"b">>, <<"A">> }

\* the hosts handed to Parse: every dot-join of 1..MaxLabels labels
HostInputs ==
    { Join(ls, Dot) : ls \in UNION { [1..n -> LabelSet] : n \in 1..MaxLabels } }

\* the entries a custom suffix list is made of
TLDUniverse ==
    { <<"a">>, <<"b">>, <<"a", ".", "b">>, <<"b", ".", "a">>, <<"a", "b">>,
      <<".", "b">>, <<"b", ".">> }

\* the custom suffix lists handed to WithTLDs
TLDLists == UNION { [1..n -> TLDUniverse] : n \in 0..MaxTLDs }

-----------------------------------------------------------------------------
(* The default suffix list.                                                *)

\* tlds.Official (generated data): "a", "b" and "a.b" stand for 'co', 'uk'
\* and 'co.uk'; the ASCII entries come first, the entries beyond ASCII last
Official ==
    << <<"a">>, <<"b">>, <<"a", ".", "b">>, <<"c", "o", "m">>, <<UcsChar>> >>

\* tlds.Pseudo: "ab" stands for a single-label pseudo suffix ('localhost')
Pseudo == << <<"a", "b">> >>

\* schemes.NoAuthority
NoAuthority ==
    << <<"b", "i", "t", "c", "o", "i", "n">>,
       <<"c", "i", "d">>,
       <<"f", "i", "l", "e">>,
       <<"m", "a", "g", "n", "e", "t">>,
       <<"m", "a", "i", "l", "t", "o">>,
       <<"m", "i", "d">>,
       <<"s", "m", "s">>,
       <<"t", "e", "l">>,
       <<"x", "m", "p", "p">> >>

-----------------------------------------------------------------------------
(* The suffix index.                                                       *)

\* suffixarray.New([]byte("\x00" + strings.Join(TLDs, "\x00") + "\x00"))
Index(TLDs) == <<NUL>> \o Join(TLDs, NUL) \o <<NUL>>

\* ToLower on one character ("A" is the only upper-case letter of the model)
ToLower(c) == IF c = "A" THEN "a" ELSE c

\* strings.ToLower
Lower(s) == [i \in 1..Len(s) |-> ToLower(s[i])]

\* Lookup as it would be if the index and the query were case-folded
LookupFold(data, s) ==
    IF Len(s) = 0 THEN {}
    ELSE { i \in 0..(Len(data) - Len(s)) :
             Lower(SubSeq(data, i + 1, i + Len(s))) = Lower(s) }

\* p.sa.Lookup([]byte(s), -1): the offsets at which s occurs in the indexed
\* data; none for the empty string
Lookup(data, s) ==
    IF Len(s) = 0 THEN {}
    ELSE { i \in 0..(Len(data) - Len(s)) : SubSeq(data, i + 1, i + Len(s)) = s }

-----------------------------------------------------------------------------
(* Domain and Parser.                                                      *)

\* &Domain{}: the zero record
Domain == [Subdomain |-> <<>>, SLD |-> <<>>, TLD |-> <<>>]

\* String as it would be if the parts were joined without checking for
\* empty ones
StringJoinAll(d) == Join(<<d.Subdomain, d.SLD, d.TLD>>, Dot)

\* Domain.String: the non-empty parts joined by "."
String(d) ==
    Join( (IF d.Subdomain # <<>> THEN <<d.Subdomain>> ELSE <<>>)
          \o (IF d.SLD # <<>> THEN <<d.SLD>> ELSE <<>>)
          \o (IF d.TLD # <<>> THEN <<d.TLD>> ELSE <<>>), Dot)

\* the loop of findTLDOffset from index i down, offset being the value so far
RECURSIVE findTLDOffsetLoop(_, _, _, _)
findTLDOffsetLoop(data, parts, i, offset) ==
    IF i < 0 THEN offset
    ELSE IF Lookup(data, Join(SliceFrom(parts, i), Dot)) # {}
         THEN findTLDOffsetLoop(data, parts, i - 1, i - 1)
         ELSE offset

\* the loop as it would be with "offset = i" in place of "offset = i - 1"
RECURSIVE findTLDOffsetLoopOffByOne(_, _, _, _)
findTLDOffsetLoopOffByOne(data, parts, i, offset) ==
    IF i < 0 THEN offset
    ELSE IF Lookup(data, Join(SliceFrom(parts, i), Dot)) # {}
         THEN findTLDOffsetLoopOffByOne(data, parts, i - 1, i)
         ELSE offset

\* findTLDOffset with the off-by-one loop
findTLDOffsetOffByOne(data, parts) ==
    findTLDOffsetLoopOffByOne(data, parts, Len(parts) - 1, -1)

\* the loop as it would be with "offset = i + 1" in place of "offset = i - 1"
RECURSIVE findTLDOffsetLoopPlusOne(_, _, _, _)
findTLDOffsetLoopPlusOne(data, parts, i, offset) ==
    IF i < 0 THEN offset
    ELSE IF Lookup(data, Join(SliceFrom(parts, i), Dot)) # {}
         THEN findTLDOffsetLoopPlusOne(data, parts, i - 1, i + 1)
         ELSE offset

\* findTLDOffset with the plus-one loop
findTLDOffsetPlusOne(data, parts) ==
    findTLDOffsetLoopPlusOne(data, parts, Len(parts) - 1, -1)

\* findTLDOffset as it would be without "offset = -1" (Go's zero value)
findTLDOffsetZero(data, parts) ==
    findTLDOffsetLoop(data, parts, Len(parts) - 1, 0)

\* Parser.findTLDOffset: the 0-based index of the SLD, or -1
findTLDOffset(data, parts) ==
    findTLDOffsetLoop(data, parts, Len(parts) - 1, -1)

\* the number of p.sa.Lookup calls the loop of findTLDOffset makes from
\* index i down
RECURSIVE findTLDOffsetLookups(_, _, _)
findTLDOffsetLookups(data, parts, i) ==
    IF i < 0 THEN 0
    ELSE IF Lookup(data, Join(SliceFrom(parts, i), Dot)) # {}
         THEN 1 + findTLDOffsetLookups(data, parts, i - 1)
         ELSE 1

\* what a Parse call leaves behind when parts[TLDOffset] is out of range
Panicked == [panic |-> "runtime error: index out of range"]

\* Parse as it would be if the single-label return forgot to set SLD
ParseDomainNoSLD(data, input) ==
    LET parts == Split(input, Dot) IN
    IF Len(parts) <= 1 THEN Domain
    ELSE LET TLDOffset == findTLDOffset(data, parts) IN
         IF TLDOffset < 0 THEN [Domain EXCEPT !.SLD = input]
         ELSE [Subdomain |-> Join(SliceTo(parts, TLDOffset), Dot),
               SLD       |-> parts[TLDOffset + 1],
               TLD       |-> Join(SliceFrom(parts, TLDOffset + 1), Dot)]

\* Parse as it would be if the suffix began at the boundary index
ParseDomainSuffixFromBoundary(data, input) ==
    LET parts == Split(input, Dot) IN
    IF Len(parts) <= 1 THEN [Domain EXCEPT !.SLD = input]
    ELSE LET TLDOffset == findTLDOffset(data, parts) IN
         IF TLDOffset < 0 THEN [Domain EXCEPT !.SLD = input]
         ELSE [Subdomain |-> Join(SliceTo(parts, TLDOffset), Dot),
               SLD       |-> parts[TLDOffset + 1],
               TLD       |-> Join(SliceFrom(parts, TLDOffset), Dot)]

\* Parser.Parse, as a function of the index data and the input
ParseDomain(data, input) ==
    LET parts == Split(input, Dot) IN
    IF Len(parts) <= 1 THEN [Domain EXCEPT !.SLD = input]
    ELSE LET TLDOffset == findTLDOffset(data, parts) IN
         IF TLDOffset < 0 THEN [Domain EXCEPT !.SLD = input]
         ELSE IF TLDOffset >= Len(parts) THEN Panicked
         ELSE [Subdomain |-> Join(SliceTo(parts, TLDOffset), Dot),
               SLD       |-> parts[TLDOffset + 1],
               TLD       |-> Join(SliceFrom(parts, TLDOffset + 1), Dot)]

-----------------------------------------------------------------------------
(* The state machine: New(), then WithTLDs options, then Parse, then       *)
(* String on the record Parse returned.                                    *)

\* no second Parse call has been made
NoReparse == reparsed = Domain

\* no URL parser is in use
NoCalls ==
    /\ scheme = <<>>
    /\ call = <<>>
    /\ heap = <<>>

\* no matcher has been compiled
NoRegex ==
    [ok |-> FALSE, pattern |-> <<>>, prog |-> [t |-> "eps"], longest |-> FALSE]

\* the lists as the packages tlds and schemes declare them
SharedTables ==
    /\ tlds = [Official |-> Official, Pseudo |-> Pseudo]
    /\ schemes = [NoAuthority |-> NoAuthority]

\* NewDomainExtractor() without options: both patterns empty
NoDomainExtractor ==
    domainExtractor = [RootDomainPattern |-> <<>>, TopLevelDomainPattern |-> <<>>]

\* no extractor is in use
NoExtractor ==
    /\ withScheme = FALSE
    /\ withSchemePattern = <<>>
    /\ withHost = FALSE
    /\ withHostPattern = <<>>
    /\ epc = "unused"
    /\ regex = NoRegex
    /\ text = <<>>
    /\ found = <<>>

\* New() without options: the index over Official ++ Pseudo
NewParser ==
    /\ sa = Index(Official \o Pseudo)
    /\ built = Official \o Pseudo
    /\ customised = FALSE
    /\ pc = "ready"
    /\ unparsed = <<>>
    /\ parsed = Domain
    /\ domain = <<>>

Init ==
    /\ NewParser
    /\ NoReparse
    /\ NoCalls
    /\ NoExtractor
    /\ SharedTables
    /\ NoDomainExtractor

\* WithTLDs as it would be if the custom list were appended to the default
WithTLDsMerged(TLDs) ==
    /\ pc = "ready"
    /\ sa' = Index(Official \o Pseudo \o TLDs)
    /\ built' = TLDs
    /\ customised' = TRUE
    /\ UNCHANGED <<pc, unparsed, parsed, domain>>
    /\ UNCHANGED <<rvars, cvars, evars, tvars>>

\* WithTLDs(TLDs...): the index is rebuilt over TLDs alone
WithTLDs(TLDs) ==
    /\ pc = "ready"
    /\ sa' = Index(TLDs)
    /\ built' = TLDs
    /\ customised' = TRUE
    /\ UNCHANGED <<pc, unparsed, parsed, domain>>
    /\ UNCHANGED <<rvars, cvars, evars, tvars>>

\* p.Parse(input)
Parse(input) ==
    /\ pc = "ready"
    /\ unparsed' = input
    /\ parsed' = ParseDomain(sa, input)
    /\ pc' = "parsed"
    /\ UNCHANGED <<sa, built, customised, domain>>
    /\ UNCHANGED <<rvars, cvars, evars, tvars>>

\* parsed.String()
Stringify ==
    /\ pc = "parsed"
    /\ domain' = String(parsed)
    /\ pc' = "joined"
    /\ UNCHANGED <<sa, built, customised, unparsed, parsed>>
    /\ UNCHANGED <<rvars, cvars, evars, tvars>>

Next ==
    \/ \E TLDs \in TLDLists : WithTLDs(TLDs)
    \/ \E input \in HostInputs : Parse(input)
    \/ Stringify

Spec == Init /\ [][Next]_vars

-----------------------------------------------------------------------------
(* A parser in use: New(), a Parse call, SetTLDs on the same parser, and   *)
(* the same input parsed again.                                            *)

\* SetTLDs as it would be if it added the entries to the index in place
SetTLDsAppended(TLDs) ==
    /\ pc = "parsed"
    /\ ~customised
    /\ sa' = Index(built \o TLDs)
    /\ built' = TLDs
    /\ customised' = TRUE
    /\ UNCHANGED <<pc, unparsed, parsed, domain>>
    /\ UNCHANGED <<rvars, cvars, evars, tvars>>

\* p.SetTLDs(TLDs...) (DomainParser.WithTLDs), called once on a parser
\* that has already parsed
SetTLDs(TLDs) ==
    /\ pc = "parsed"
    /\ ~customised
    /\ sa' = Index(TLDs)
    /\ built' = TLDs
    /\ customised' = TRUE
    /\ UNCHANGED <<pc, unparsed, parsed, domain>>
    /\ UNCHANGED <<rvars, cvars, evars, tvars>>

\* p.Parse with the input of the first call
ParseAgain ==
    /\ pc = "parsed"
    /\ reparsed' = ParseDomain(sa, unparsed)
    /\ pc' = "reparsed"
    /\ UNCHANGED <<sa, built, customised, unparsed, parsed, domain>>
    /\ UNCHANGED <<cvars, evars, tvars>>

NextRebuild ==
    \/ \E input \in HostInputs : Parse(input)
    \/ \E TLDs \in TLDLists : SetTLDs(TLDs)
    \/ ParseAgain

SpecRebuild == Init /\ [][NextRebuild]_vars

-----------------------------------------------------------------------------
(* The URL parser: concurrent Parse calls on one parser.  A call reads the *)
(* default scheme, allocates its record, scans the labels of the host one  *)
(* lookup at a time and fills the record in.  The inputs are host names,   *)
(* so net.ParseIP finds no address in them.                                *)

\* strings.HasPrefix(s, prefix)
HasPrefix(s, prefix) ==
    /\ Len(s) >= Len(prefix)
    /\ SubSeq(s, 1, Len(prefix)) = prefix

\* strings.Contains(s, substr)
Contains(s, substr) ==
    \E i \in 0..(Len(s) - Len(substr)) :
        SubSeq(s, i + 1, i + Len(substr)) = substr

\* addScheme as it would be without its default case
addSchemePrepends(inURL, s) ==
    IF HasPrefix(inURL, <<"/", "/">>) THEN s \o <<":">> \o inURL
    ELSE IF HasPrefix(inURL, <<":", "/", "/">>) THEN s \o inURL
    ELSE s \o <<":", "/", "/">> \o inURL

\* addScheme(inURL, scheme)
addScheme(inURL, s) ==
    IF HasPrefix(inURL, <<"/", "/">>) THEN s \o <<":">> \o inURL
    ELSE IF HasPrefix(inURL, <<":", "/", "/">>) THEN s \o inURL
    ELSE IF ~Contains(inURL, <<"/", "/">>) THEN s \o <<":", "/", "/">> \o inURL
    ELSE inURL

\* the letters of the model's strings
Letters == {"a", "b", "A", "s"}

\* the length of the "name:" prefix url.Parse takes as the scheme (a letter,
\* then letters and "."; digits, "+" and "-" do not occur in the model's
\* strings), 0 when there is none
SchemeLen(raw) ==
    LET colons == { i \in 2..Len(raw) :
                      /\ raw[i] = ":"
                      /\ raw[1] \in Letters
                      /\ \A j \in 2..(i - 1) : raw[j] \in Letters \cup {Dot} }
    IN IF colons = {} THEN 0 ELSE CHOOSE i \in colons : TRUE

\* url.Parse(raw) and Hostname(): the authority after "//", up to the next
\* "/"; empty when the URL has no authority
Hostname(raw) ==
    LET rest == SubSeq(raw, SchemeLen(raw) + 1, Len(raw)) IN
    IF ~HasPrefix(rest, <<"/", "/">>) THEN <<>>
    ELSE LET authority == SubSeq(rest, 3, Len(rest))
             slashes == { i \in 1..Len(authority) : authority[i] = "/" }
         IN IF slashes = {} THEN authority
            ELSE SubSeq(authority, 1,
                        (CHOOSE i \in slashes : \A j \in slashes : i <= j) - 1)

\* the goroutines calling Parse
Callers == {"c1", "c2"}

\* the raw URLs handed to Parse
RawURLs ==
    { <<"a", ".", "b">>,
      <<"/", "/", "b", ".", "a", ".", "b">>,
      <<"s", ":", "/", "/", ".", "a">>,
      <<"s", ":", "/", "/", "b", "/", "a">> }

\* the default schemes a parser is built with
Schemes == { <<>>, <<"s">> }

\* a goroutine that has not called Parse
Idle == [pc |-> "idle", raw |-> <<>>, hostname |-> <<>>,
         i |-> 0, offset |-> -1, ret |-> 0]

\* NewURLParser(URLParserWithDefaultScheme(scheme)): the default domain
\* parser and the scheme
InitConcurrent ==
    /\ NewParser
    /\ NoReparse
    /\ scheme \in Schemes
    /\ call = [c \in Callers |-> Idle]
    /\ heap = <<>>
    /\ NoExtractor
    /\ SharedTables
    /\ NoDomainExtractor

\* the address &Domain{} would get if every call shared one record
NewRecordShared(h) == 1

\* the address of &Domain{}: a record no other call holds
NewRecord(h) == Len(h) + 1

\* URLParser.Parse up to the call of the domain parser: the scheme is read
\* and the host name taken from the URL
URLParse(c, raw) ==
    /\ call[c].pc = "idle"
    /\ LET u == IF scheme # <<>> THEN addScheme(raw, scheme) ELSE raw IN
       call' = [call EXCEPT ![c] =
                  [Idle EXCEPT !.pc = "Parse", !.raw = raw,
                               !.hostname = Hostname(u)]]
    /\ UNCHANGED <<scheme, heap>>
    /\ UNCHANGED <<pvars, rvars, evars, tvars>>

\* DomainParser.Parse up to the call of findTLDOffset: the record is
\* allocated and the host split; a single label is the whole result
Allocate(c) ==
    /\ call[c].pc = "Parse"
    /\ LET ret == NewRecord(heap)
           parts == Split(call[c].hostname, Dot)
           zeroed == [a \in 1..(IF ret > Len(heap) THEN ret ELSE Len(heap)) |->
                        IF a = ret THEN Domain ELSE heap[a]]
       IN IF Len(parts) <= 1
          THEN /\ heap' = [zeroed EXCEPT ![ret].SLD = call[c].hostname]
               /\ call' = [call EXCEPT ![c].ret = ret, ![c].pc = "done"]
          ELSE /\ heap' = zeroed
               /\ call' = [call EXCEPT ![c].ret = ret,
                                       ![c].i = Len(parts) - 1,
                                       ![c].offset = -1,
                                       ![c].pc = "findTLDOffset"]
    /\ UNCHANGED scheme
    /\ UNCHANGED <<pvars, rvars, evars, tvars>>

\* one iteration of the loop of findTLDOffset: one lookup in the index
Scan(c) ==
    /\ call[c].pc = "findTLDOffset"
    /\ LET parts == Split(call[c].hostname, Dot)
           i == call[c].i
       IN IF Lookup(sa, Join(SliceFrom(parts, i), Dot)) # {}
          THEN call' = [call EXCEPT ![c].offset = i - 1,
                                    ![c].i = i - 1,
                                    ![c].pc = IF i - 1 < 0 THEN "fill"
                                              ELSE "findTLDOffset"]
          ELSE call' = [call EXCEPT ![c].pc = "fill"]
    /\ UNCHANGED <<scheme, heap>>
    /\ UNCHANGED <<pvars, rvars, evars, tvars>>

\* the rest of DomainParser.Parse: the fields of the record are written
Fill(c) ==
    /\ call[c].pc = "fill"
    /\ LET parts == Split(call[c].hostname, Dot)
           TLDOffset == call[c].offset
           ret == call[c].ret
       IN IF TLDOffset < 0
          THEN heap' = [heap EXCEPT ![ret].SLD = call[c].hostname]
          ELSE heap' = [heap EXCEPT
                 ![ret].Subdomain = Join(SliceTo(parts, TLDOffset), Dot),
                 ![ret].SLD = parts[TLDOffset + 1],
                 ![ret].TLD = Join(SliceFrom(parts, TLDOffset + 1), Dot)]
    /\ call' = [call EXCEPT ![c].pc = "done"]
    /\ UNCHANGED scheme
    /\ UNCHANGED <<pvars, rvars, evars, tvars>>

NextConcurrent ==
    \E c \in Callers :
        \/ \E raw \in RawURLs : URLParse(c, raw)
        \/ Allocate(c)
        \/ Scan(c)
        \/ Fill(c)

SpecConcurrent == InitConcurrent /\ [][NextConcurrent]_vars

-----------------------------------------------------------------------------
(* Regular expressions.  A pattern is a sequence of tokens: a character,   *)
(* an escaped character, a character class in brackets, a group opener,    *)
(* ")", "|", a repetition operator, "\b" or the flag "(?i)".  The          *)
(* character sets are those of the source restricted to the characters of  *)
(* the model's texts; the texts carry no upper-case suffix, so "(?i)" has  *)
(* no effect on them.                                                      *)

\* a-z
LowerCase ==
    {"a", "b", "c", "d", "e", "f", "g", "h", "i", "j", "k", "l", "m",
     "n", "o", "p", "q", "r", "s", "t", "u", "v", "w", "x", "y", "z"}

\* A-Z, as far as the model's texts have them
UpperCase == {"A"}

\* _alphaCharacterSet
alphaCharacterSet == LowerCase \cup UpperCase

\* _digitCHaracterSet
digitCHaracterSet == {"0", "1", "2", "3", "4", "5", "6", "7", "8", "9"}

\* _IUnreservedCharacterSet
IUnreservedCharacterSet ==
    alphaCharacterSet \cup digitCHaracterSet \cup {"-", ".", "_", "~"}
        \cup {UcsChar}

\* _IEndUnreservedCharacterSet
IEndUnreservedCharacterSet ==
    alphaCharacterSet \cup digitCHaracterSet \cup {"-", "_", "~"}
        \cup {UcsChar}

\* _subDelimsCharacterSet
subDelimsCharacterSet == {"!", "$", "&", "'", "(", ")", "*", "+", ",", ";", "="}

\* _endSubDelimsCharacterSet
endSubDelimsCharacterSet == {"$", "&", "+", "="}

\* midIPathSegmentChar
midIPathSegmentChar ==
    IUnreservedCharacterSet \cup {"%"} \cup subDelimsCharacterSet
        \cup {":", "@"}

\* endIPathSegmentChar
endIPathSegmentChar ==
    IEndUnreservedCharacterSet \cup {"%"} \cup endSubDelimsCharacterSet

\* midIChar (no private-use character occurs in the model's texts)
midIChar == {"/", "?", "#", "\\"} \cup midIPathSegmentChar

\* endIChar
endIChar == {"/", "#"} \cup endIPathSegmentChar

\* \w
WordChars == alphaCharacterSet \cup digitCHaracterSet \cup {"_"}

\* the character classes of the patterns, by their token
CharClass ==
    ("[midIChar]" :> midIChar)
    @@ ("[endIChar]" :> endIChar)
    @@ ("[_IUnreservedCharacterSet_subDelimsCharacterSet:]" :>
            IUnreservedCharacterSet \cup subDelimsCharacterSet \cup {":"})
    @@ ("[\\p{L}\\p{M}\\p{N}]" :>
            alphaCharacterSet \cup digitCHaracterSet \cup {UcsChar})
    @@ ("[\\p{L}\\p{M}\\p{N}\\-]" :>
            alphaCharacterSet \cup digitCHaracterSet \cup {UcsChar, "-"})
    @@ ("[a-zA-Z]" :> alphaCharacterSet)
    @@ ("[a-zA-Z.\\-+]" :> alphaCharacterSet \cup {".", "-", "+"})
    @@ ("[a-zA-Z0-9._%\\-+]" :>
            alphaCharacterSet \cup digitCHaracterSet
                \cup {".", "_", "%", "-", "+"})
    @@ ("[\\w\\/?=&#.-]" :> WordChars \cup {"/", "?", "=", "&", "#", ".", "-"})
    @@ ("[a-z0-9-]" :> LowerCase \cup digitCHaracterSet \cup {"-"})
    @@ ("[0-9a-fA-F]" :>
            digitCHaracterSet \cup {"a", "b", "c", "d", "e", "f", "A"})
    @@ ("[0-9]" :> digitCHaracterSet)
    @@ ("[0-5]" :> {"0", "1", "2", "3", "4", "5"})
    @@ ("[0-4]" :> {"0", "1", "2", "3", "4"})
    @@ ("[1-9]" :> digitCHaracterSet \ {"0"})
    @@ ("[1-5]" :> {"1", "2", "3", "4", "5"})
    @@ ("\\w" :> WordChars)
    @@ ("[.]" :> {"."})

\* the escaped characters of the patterns, by their token
Escaped ==
    ("\\." :> ".") @@ ("\\(" :> "(") @@ ("\\)" :> ")") @@ ("\\[" :> "[")
    @@ ("\\]" :> "]") @@ ("\\{" :> "{") @@ ("\\}" :> "}") @@ ("\\/" :> "/")
    @@ ("\\-" :> "-")

\* the characters that stand for themselves in a pattern
Literals ==
    alphaCharacterSet \cup digitCHaracterSet \cup {UcsChar}
        \cup {":", "/", "@", "-", "%", "_", " ", ",", "!", "'"}

\* the tokens that open a group
GroupOpeners == {"(", "(?:", "(?P<relaxedEmail>"}

\* the repetition operators: the least and the most repetitions (-1: any
\* number)
Repetition ==
    ("*" :> <<0, -1>>) @@ ("+" :> <<1, -1>>) @@ ("?" :> <<0, 1>>)
    @@ ("+?" :> <<1, -1>>)
    @@ ("{1}" :> <<1, 1>>) @@ ("{2}" :> <<2, 2>>) @@ ("{3}" :> <<3, 3>>)
    @@ ("{4}" :> <<4, 4>>) @@ ("{5}" :> <<5, 5>>) @@ ("{6}" :> <<6, 6>>)
    @@ ("{7}" :> <<7, 7>>)
    @@ ("{0,1}" :> <<0, 1>>) @@ ("{0,2}" :> <<0, 2>>) @@ ("{0,3}" :> <<0, 3>>)
    @@ ("{0,4}" :> <<0, 4>>) @@ ("{0,5}" :> <<0, 5>>)
    @@ ("{1,2}" :> <<1, 2>>) @@ ("{1,3}" :> <<1, 3>>) @@ ("{1,4}" :> <<1, 4>>)
    @@ ("{1,5}" :> <<1, 5>>) @@ ("{1,6}" :> <<1, 6>>) @@ ("{1,7}" :> <<1, 7>>)

\* what the parser returns on a syntax error, and on success the parsed
\* expression and the position of the next token
SyntaxError == [ok |-> FALSE, re |-> [t |-> "eps"], pos |-> 0]
Parsed(re, pos) == [ok |-> TRUE, re |-> re, pos |-> pos]

\* syntax.Parse: an alternation of concatenations of atoms, each atom with
\* at most one repetition operator
RECURSIVE ParseAlternation(_, _, _), ParseConcatenation(_, _, _), ParseAtom(_, _)
ParseAtom(p, i) ==
    LET tok == p[i] IN
    IF tok \in GroupOpeners THEN
        LET r == ParseAlternation(p, i + 1, <<>>) IN
        IF r.ok /\ r.pos <= Len(p) /\ p[r.pos] = ")"
        THEN Parsed(r.re, r.pos + 1)
        ELSE SyntaxError
    ELSE IF tok \in DOMAIN CharClass
         THEN Parsed([t |-> "chr", cs |-> CharClass[tok]], i + 1)
    ELSE IF tok \in DOMAIN Escaped
         THEN Parsed([t |-> "chr", cs |-> {Escaped[tok]}], i + 1)
    ELSE IF tok \in Literals THEN Parsed([t |-> "chr", cs |-> {tok}], i + 1)
    ELSE IF tok = "\\b" THEN Parsed([t |-> "wb"], i + 1)
    ELSE IF tok = "(?i)" THEN Parsed([t |-> "eps"], i + 1)
    ELSE SyntaxError

ParseConcatenation(p, i, acc) ==
    IF i > Len(p) \/ p[i] \in {"|", ")"} THEN Parsed([t |-> "cat", l |-> acc], i)
    ELSE LET a == ParseAtom(p, i) IN
         IF ~a.ok THEN SyntaxError
         ELSE IF a.pos <= Len(p) /\ p[a.pos] \in DOMAIN Repetition
              THEN ParseConcatenation(p, a.pos + 1,
                       Append(acc, [t |-> "rep", r |-> a.re,
                                    min |-> Repetition[p[a.pos]][1],
                                    max |-> Repetition[p[a.pos]][2]]))
              ELSE ParseConcatenation(p, a.pos, Append(acc, a.re))

ParseAlternation(p, i, acc) ==
    LET c == ParseConcatenation(p, i, <<>>) IN
    IF ~c.ok THEN SyntaxError
    ELSE IF c.pos <= Len(p) /\ p[c.pos] = "|"
         THEN ParseAlternation(p, c.pos + 1, Append(acc, c.re))
         ELSE Parsed([t |-> "alt", l |-> Append(acc, c.re)], c.pos)

\* regexp.Compile: the expression of a pattern, or a syntax error
Compile(p) ==
    LET r == ParseAlternation(p, 1, <<>>) IN
    IF r.ok /\ r.pos = Len(p) + 1 THEN r ELSE SyntaxError

\* the character at 1-based position i of s is a word character
IsWordChar(s, i) == i >= 1 /\ i <= Len(s) /\ s[i] \in WordChars

\* the offsets at which a match of the expression re that starts at offset
\* i of s can end
RECURSIVE Ends(_, _, _), EndsOfConcatenation(_, _, _, _), EndsOfRepetition(_, _, _, _, _)
Ends(re, s, i) ==
    CASE re.t = "chr" -> IF i < Len(s) /\ s[i + 1] \in re.cs THEN {i + 1} ELSE {}
      [] re.t = "eps" -> {i}
      [] re.t = "wb" -> IF IsWordChar(s, i) # IsWordChar(s, i + 1) THEN {i} ELSE {}
      [] re.t = "cat" -> EndsOfConcatenation(re.l, 1, s, {i})
      [] re.t = "alt" -> UNION { Ends(re.l[k], s, i) : k \in DOMAIN re.l }
      [] re.t = "rep" -> EndsOfRepetition(re, s, {i}, 0, {})

EndsOfConcatenation(l, k, s, from) ==
    IF k > Len(l) \/ from = {} THEN from
    ELSE EndsOfConcatenation(l, k + 1, s,
                             UNION { Ends(l[k], s, j) : j \in from })

EndsOfRepetition(re, s, frontier, n, acc) ==
    LET reached == IF n >= re.min THEN acc \cup frontier ELSE acc IN
    IF frontier = {} \/ n = re.max THEN reached
    ELSE LET next == UNION { Ends(re.r, s, j) : j \in frontier } IN
         EndsOfRepetition(re, s,
                          IF n >= re.min THEN next \ reached ELSE next,
                          n + 1, reached)

\* the largest element of a non-empty set of numbers
Max(S) == CHOOSE x \in S : \A y \in S : y <= x

\* the end of the match the matcher reports at offset i: with Longest() the
\* longest one; otherwise the longest one of the first alternative that
\* matches there
EndOfMatch(rx, s, i) ==
    IF rx.longest \/ rx.prog.t # "alt" THEN Max(Ends(rx.prog, s, i))
    ELSE LET l == rx.prog.l
             k == CHOOSE k \in DOMAIN l :
                      /\ Ends(l[k], s, i) # {}
                      /\ \A h \in 1..(k - 1) : Ends(l[h], s, i) = {}
         IN Max(Ends(l[k], s, i))

\* the leftmost match at or after offset i: its start and end, or <<>>
RECURSIVE Find(_, _, _)
Find(rx, s, i) ==
    IF i > Len(s) THEN <<>>
    ELSE IF Ends(rx.prog, s, i) # {}
         THEN <<i, EndOfMatch(rx, s, i)>>
         ELSE Find(rx, s, i + 1)

\* the successive matches from offset i on, prevMatchEnd being the end of
\* the match before: an empty match next to the match before is dropped,
\* and the search moves on by one character after an empty match
RECURSIVE FindAllFrom(_, _, _, _)
FindAllFrom(rx, s, i, prevMatchEnd) ==
    LET m == Find(rx, s, i) IN
    IF m = <<>> THEN <<>>
    ELSE IF m[2] > m[1] THEN <<m>> \o FindAllFrom(rx, s, m[2], m[2])
    ELSE (IF m[1] = prevMatchEnd THEN <<>> ELSE <<m>>)
         \o FindAllFrom(rx, s, m[2] + 1, m[2])

\* regex.FindAllString(s, -1): the matched substrings, with their offsets
FindAllString(rx, s) ==
    LET ms == FindAllFrom(rx, s, 0, -1) IN
    [k \in DOMAIN ms |->
        [start |-> ms[k][1], end |-> ms[k][2],
         str |-> SubSeq(s, ms[k][1] + 1, ms[k][2])]]

-----------------------------------------------------------------------------
(* The patterns of the extractor.                                          *)

\* the characters regexp.QuoteMeta escapes, as far as the model's strings
\* have them, with their escaped token
Quoted ==
    ("." :> "\\.") @@ ("(" :> "\\(") @@ (")" :> "\\)") @@ ("[" :> "\\[")
    @@ ("]" :> "\\]") @@ ("{" :> "\\{") @@ ("}" :> "\\}")

\* regexp.QuoteMeta(s)
QuoteMeta(s) ==
    [i \in DOMAIN s |-> IF s[i] \in DOMAIN Quoted THEN Quoted[s[i]] ELSE s[i]]

\* anyOf(strs...)
anyOf(strs) ==
    <<"(?:">> \o Join([i \in DOMAIN strs |-> QuoteMeta(strs[i])], "|") \o <<")">>

\* _pctEncodingPattern
pctEncodingPattern == <<"%", "[0-9a-fA-F]", "{2}">>

\* _IUserInfoPattern
IUserInfoPattern ==
    <<"(?:", "(?:", "[_IUnreservedCharacterSet_subDelimsCharacterSet:]", "|">>
        \o pctEncodingPattern \o <<")", "+", "@", ")">>

\* _IUserInfoOptionalPattern
IUserInfoOptionalPattern == IUserInfoPattern \o <<"?">>

\* wellParen, wellBrack, wellBrace, wellAll
wellParen ==
    <<"\\(", "(?:", "[midIChar]", "|", "\\(", "[midIChar]", "*", "\\)", ")",
      "*", "\\)">>
wellBrack ==
    <<"\\[", "(?:", "[midIChar]", "|", "\\[", "[midIChar]", "*", "\\]", ")",
      "*", "\\]">>
wellBrace ==
    <<"\\{", "(?:", "[midIChar]", "|", "\\{", "[midIChar]", "*", "\\}", ")",
      "*", "\\}">>
wellAll == wellParen \o <<"|">> \o wellBrack \o <<"|">> \o wellBrace

\* a path that may end with any mid-segment character
pathContMidOnly ==
    <<"(?:", "[midIChar]", "*", "(?:">> \o wellAll
        \o <<"|", "[midIChar]", ")", ")", "+">>

\* pathCont
pathCont ==
    <<"(?:", "[midIChar]", "*", "(?:">> \o wellAll
        \o <<"|", "[endIChar]", ")", ")", "+">>

\* _IRICharctersPattern
IRICharctersPattern ==
    <<"[\\p{L}\\p{M}\\p{N}]", "(?:", "[\\p{L}\\p{M}\\p{N}\\-]", "*",
      "[\\p{L}\\p{M}\\p{N}]", ")", "?">>

\* _subdomainPattern
subdomainPattern == <<"(?:">> \o IRICharctersPattern \o <<"\\.", ")", "+">>

\* ExtractorSchemePattern
ExtractorSchemePattern ==
    <<"(?:", "[a-zA-Z]", "[a-zA-Z.\\-+]", "*", ":", "/", "/", "|">>
        \o anyOf(NoAuthority) \o <<":", ")">>

\* an IPv4 pattern with a loose octet, [0-9]{1,3}
ExtractorIPv4PatternLoose ==
    LET octet == <<"(?:", "[0-9]", "{1,3}", ")">>
    IN octet \o <<"\\.">> \o octet \o <<"\\.">> \o octet \o <<"\\.">> \o octet

\* ExtractorIPv4Pattern
ExtractorIPv4Pattern ==
    LET octet == <<"(?:", "2", "5", "[0-5]", "|", "2", "[0-4]", "[0-9]", "|",
                   "1", "[0-9]", "{2}", "|", "[1-9]", "[0-9]", "|", "[0-9]",
                   ")">>
    IN octet \o <<"\\.">> \o octet \o <<"\\.">> \o octet \o <<"\\.">> \o octet

\* ExtractorNonEmptyIPv6Pattern
ExtractorNonEmptyIPv6Pattern ==
    LET h == <<"[0-9a-fA-F]", "{1,4}">>
        hc(n) == <<"(?:">> \o h \o <<":", ")", n>>
        ch(n) == <<"(?:", ":">> \o h \o <<")", n>>
        v4 == ExtractorIPv4Pattern
    IN <<"(?:">>
       \o hc("{7}") \o <<"(?:">> \o h \o <<"|", ":", ")", "|">>
       \o hc("{6}") \o <<"(?:">> \o v4 \o <<"|", ":">> \o h \o <<"|", ":", ")", "|">>
       \o hc("{5}") \o <<"(?:", ":">> \o v4 \o <<"|">> \o ch("{1,2}")
           \o <<"|", ":", ")", "|">>
       \o hc("{4}") \o <<"(?:">> \o ch("{0,1}") \o <<":">> \o v4 \o <<"|">>
           \o ch("{1,3}") \o <<"|", ":", ")", "|">>
       \o hc("{3}") \o <<"(?:">> \o ch("{0,2}") \o <<":">> \o v4 \o <<"|">>
           \o ch("{1,4}") \o <<"|", ":", ")", "|">>
       \o hc("{2}") \o <<"(?:">> \o ch("{0,3}") \o <<":">> \o v4 \o <<"|">>
           \o ch("{1,5}") \o <<"|", ":", ")", "|">>
       \o hc("{1}") \o <<"(?:">> \o ch("{0,4}") \o <<":">> \o v4 \o <<"|">>
           \o ch("{1,6}") \o <<"|", ":", ")", "|">>
       \o <<":", "(?:">> \o ch("{0,5}") \o <<":">> \o v4 \o <<"|">>
           \o ch("{1,7}") \o <<")">>
       \o <<")">>

\* ExtractorIPv6Pattern
ExtractorIPv6Pattern ==
    <<"(?:">> \o ExtractorNonEmptyIPv6Pattern \o <<"|", ":", ":", ")">>

\* ExtractorPortPattern
ExtractorPortPattern ==
    <<"(?:", ":", "[0-9]", "{1,4}", "|", "[1-5]", "[0-9]", "{4}", "|",
      "6", "[0-5]", "[0-9]", "{3}", "\\b", ")">>

\* ExtractorPortOptionalPattern
ExtractorPortOptionalPattern == ExtractorPortPattern \o <<"?">>

-----------------------------------------------------------------------------
(* Extractor.CompileRegex.                                                 *)

\* the index of the first entry of the list whose first byte is beyond
\* ASCII, 0 when there is none
FirstUnicode(official) ==
    LET is == { i \in DOMAIN official : official[i][1] = UcsChar } IN
    IF is = {} THEN 0 ELSE CHOOSE i \in is : \A j \in is : i <= j

\* asciiTLDs and unicodeTLDs after the loop over tlds.Official: both stay
\* nil when no entry starts beyond ASCII
asciiTLDs(official) ==
    IF FirstUnicode(official) = 0 THEN <<>>
    ELSE SubSeq(official, 1, FirstUnicode(official) - 1)
unicodeTLDs(official) ==
    IF FirstUnicode(official) = 0 THEN <<>>
    ELSE SubSeq(official, FirstUnicode(official), Len(official))

\* the capacity of asciiTLDs as it would be with tlds.Official[:i]: the
\* rest of the array
asciiTLDsCapWhole(official) ==
    IF FirstUnicode(official) = 0 THEN 0 ELSE Len(official)

\* the capacity of asciiTLDs: tlds.Official[:i:i] ends its array at i, and
\* a nil slice has none
asciiTLDsCap(official) == Len(asciiTLDs(official))

\* the array of tlds.Official after append(asciiTLDs, tlds.Pseudo...):
\* append writes behind the slice where its capacity has room, and into
\* a new array where it has not
arrayAfterAppend(official, pseudo) ==
    LET n == Len(asciiTLDs(official)) IN
    IF pseudo # <<>> /\ n + Len(pseudo) <= asciiTLDsCap(official)
    THEN [i \in DOMAIN official |->
             IF i > n /\ i <= n + Len(pseudo) THEN pseudo[i - n]
             ELSE official[i]]
    ELSE official

\* unicodeTLDs as anyOf reads it after the append: the same part of the
\* array
unicodeTLDsAfterAppend(official, pseudo) ==
    IF FirstUnicode(official) = 0 THEN <<>>
    ELSE SubSeq(arrayAfterAppend(official, pseudo),
                FirstUnicode(official), Len(official))

\* punycode
punycode == <<"x", "n", "-", "-", "[a-z0-9-]", "+">>

\* knownTLDPattern
knownTLDPattern ==
    <<"(?:", "(?i)">> \o punycode \o <<"|">>
        \o anyOf(asciiTLDs(tlds.Official) \o tlds.Pseudo) \o <<"\\b", "|">>
        \o anyOf(unicodeTLDsAfterAppend(tlds.Official, tlds.Pseudo))
        \o <<")">>

\* domainPattern
domainPattern ==
    <<"(?:">> \o subdomainPattern \o knownTLDPattern
        \o <<"|", "l", "o", "c", "a", "l", "h", "o", "s", "t", ")">>

\* hostWithoutPortPattern
hostWithoutPortPattern ==
    <<"(?:">> \o domainPattern \o <<"|", "\\[">> \o ExtractorIPv6Pattern
        \o <<"\\]", "|", "\\b">> \o ExtractorIPv4Pattern \o <<"\\b", ")">>

\* schemePattern as it would be if an empty override were used as well
schemePatternUnguarded(e) ==
    IF e.withScheme THEN e.withSchemePattern ELSE ExtractorSchemePattern

\* schemePattern: the override when a scheme is required and one is set
schemePattern(e) ==
    IF e.withScheme /\ e.withSchemePattern # <<>> THEN e.withSchemePattern
    ELSE ExtractorSchemePattern

\* hostWithPortOptionalPattern as it would be if the override were not used
hostWithPortOptionalPatternDefault(e) ==
    <<"(?:">> \o hostWithoutPortPattern \o ExtractorPortOptionalPattern
        \o <<")">>

\* hostWithPortOptionalPattern: the override when a host is required and
\* one is set
hostWithPortOptionalPattern(e) ==
    IF e.withHost /\ e.withHostPattern # <<>> THEN e.withHostPattern
    ELSE <<"(?:">> \o hostWithoutPortPattern \o ExtractorPortOptionalPattern
             \o <<")">>

\* _IAuthorityPattern
IAuthorityPattern(e) ==
    <<"(?:">> \o IUserInfoOptionalPattern \o hostWithPortOptionalPattern(e)
        \o <<")">>

\* _IAuthorityOptionalPattern
IAuthorityOptionalPattern(e) == IAuthorityPattern(e) \o <<"?">>

\* webURL
webURL(e) ==
    IAuthorityPattern(e) \o <<"(?:", "/">> \o pathCont \o <<"|", "/", ")", "?">>

\* email
email(e) ==
    <<"(?P<relaxedEmail>", "[a-zA-Z0-9._%\\-+]", "+", "@">>
        \o hostWithPortOptionalPattern(e) \o <<")">>

\* URLsWithSchemePattern: with a host override the authority is required
URLsWithSchemePattern(e) ==
    IF e.withHostPattern # <<>>
    THEN schemePattern(e) \o IAuthorityPattern(e) \o <<"(?:", "/">>
             \o pathCont \o <<"|", "/", ")", "?">>
    ELSE schemePattern(e) \o IAuthorityOptionalPattern(e) \o pathCont

\* URLsWithHostPattern
URLsWithHostPattern(e) == webURL(e) \o <<"|">> \o email(e)

\* RelativeURLsPattern
RelativeURLsPattern ==
    <<"(", "\\/", "[\\w\\/?=&#.-]", "*", ")", "|",
      "(", "[\\w\\/?=&#.-]", "+?", "(?:", "\\/", "[\\w\\/?=&#.-]", "+", ")",
      "+", ")">>

\* the pattern as it would be without the case "e.withScheme" of the switch
patternWithoutSchemeCase(e) ==
    IF e.withHost
    THEN URLsWithSchemePattern(e) \o <<"|">> \o URLsWithHostPattern(e)
    ELSE URLsWithSchemePattern(e) \o <<"|">> \o URLsWithHostPattern(e)
             \o <<"|">> \o RelativeURLsPattern

\* the switch of CompileRegex: the combined pattern
pattern(e) ==
    IF e.withScheme THEN URLsWithSchemePattern(e)
    ELSE IF e.withHost
    THEN URLsWithSchemePattern(e) \o <<"|">> \o URLsWithHostPattern(e)
    ELSE URLsWithSchemePattern(e) \o <<"|">> \o URLsWithHostPattern(e)
             \o <<"|">> \o RelativeURLsPattern

\* regexp.MustCompile(pattern): the matcher, or a panic
MustCompile(p) ==
    LET r == Compile(p) IN
    [ok |-> r.ok, pattern |-> p, prog |-> r.re, longest |-> FALSE]

\* CompileRegex as it would be without the call of regex.Longest()
CompileRegexLeftmostFirst(e) == MustCompile(pattern(e))

\* Extractor.CompileRegex
CompileRegex(e) == [MustCompile(pattern(e)) EXCEPT !.longest = TRUE]

-----------------------------------------------------------------------------
(* The extractor: New(), options and setters, CompileRegex, and            *)
(* FindAllString on the matcher it returned.                               *)

\* the scheme override of the tests, `(?:https?://)`
HTTPSchemePattern ==
    <<"(?:", "h", "t", "t", "p", "s", "?", ":", "/", "/", ")">>

\* the host override of the tests,
\* `(?:(?:\w+[.])*example\.com` + ExtractorPortOptionalPattern + `)`
ExampleHostPattern ==
    <<"(?:", "(?:", "\\w", "+", "[.]", ")", "*",
      "e", "x", "a", "m", "p", "l", "e", "\\.", "c", "o", "m">>
        \o ExtractorPortOptionalPattern \o <<")">>

\* the scheme patterns handed to WithSchemePattern: none, a pattern, and
\* a string that is no pattern
SchemePatterns == { <<>>, HTTPSchemePattern, <<"(">> }

\* the host patterns handed to WithHostPattern: none, a pattern, and two
\* strings that are no patterns
HostPatterns == { <<>>, ExampleHostPattern, <<"(">>, <<")", "(">> }

\* mentions of a URL with a scheme, as the tests have them
SchemeMentions ==
    {
      \* http://foo.com/bar
      <<"h", "t", "t", "p", ":", "/", "/", "f", "o", "o", ".", "c", "o",
        "m", "/", "b", "a", "r">>,
      \* mailto:a@b.com
      <<"m", "a", "i", "l", "t", "o", ":", "a", "@", "b", ".", "c", "o",
        "m">>,
      \* http://localhost
      <<"h", "t", "t", "p", ":", "/", "/", "l", "o", "c", "a", "l", "h",
        "o", "s", "t">>,
      \* http://192.168.1.1/setup
      <<"h", "t", "t", "p", ":", "/", "/", "1", "9", "2", ".", "1", "6",
        "8", ".", "1", ".", "1", "/", "s", "e", "t", "u", "p">>,
      \* http://www.example.com:8080/page
      <<"h", "t", "t", "p", ":", "/", "/", "w", "w", "w", ".", "e", "x",
        "a", "m", "p", "l", "e", ".", "c", "o", "m", ":", "8", "0", "8",
        "0", "/", "p", "a", "g", "e">>
    }

\* mentions without a scheme: hosts, an email address, an IPv4 address,
\* a relative path, a host and path before a full stop
BareMentions ==
    {
      \* www.bar.com
      <<"w", "w", "w", ".", "b", "a", "r", ".", "c", "o", "m">>,
      \* www.other.com
      <<"w", "w", "w", ".", "o", "t", "h", "e", "r", ".", "c", "o", "m">>,
      \* www.example.com
      <<"w", "w", "w", ".", "e", "x", "a", "m", "p", "l", "e", ".", "c",
        "o", "m">>,
      \* a@b.com
      <<"a", "@", "b", ".", "c", "o", "m">>,
      \* 192.168.1.1
      <<"1", "9", "2", ".", "1", "6", "8", ".", "1", ".", "1">>,
      \* /a/b
      <<"/", "a", "/", "b">>,
      \* x.com/a.
      <<"x", ".", "c", "o", "m", "/", "a", ".">>
    }

\* mentions with a scheme in prose: before a comma, inside parentheses,
\* with a balanced group in the path, before a full stop, before "!"
PathMentions ==
    {
      \* https://www.example.com, it's cool!
      <<"h", "t", "t", "p", "s", ":", "/", "/", "w", "w", "w", ".", "e",
        "x", "a", "m", "p", "l", "e", ".", "c", "o", "m", ",", " ", "i",
        "t", "'", "s", " ", "c", "o", "o", "l", "!">>,
      \* (http://foo.com/bar)
      <<"(", "h", "t", "t", "p", ":", "/", "/", "f", "o", "o", ".", "c",
        "o", "m", "/", "b", "a", "r", ")">>,
      \* http://foo.com/a_(b)
      <<"h", "t", "t", "p", ":", "/", "/", "f", "o", "o", ".", "c", "o",
        "m", "/", "a", "_", "(", "b", ")">>,
      \* http://foo.com/bar.
      <<"h", "t", "t", "p", ":", "/", "/", "f", "o", "o", ".", "c", "o",
        "m", "/", "b", "a", "r", ".">>,
      \* see http://foo.com/[a]{b}!
      <<"s", "e", "e", " ", "h", "t", "t", "p", ":", "/", "/", "f", "o",
        "o", ".", "c", "o", "m", "/", "[", "a", "]", "{", "b", "}", "!">>
    }

\* "visit http://foo.com/bar and www.bar.com"
ExampleText ==
    <<"v", "i", "s", "i", "t", " ", "h", "t", "t", "p", ":", "/", "/", "f",
      "o", "o", ".", "c", "o", "m", "/", "b", "a", "r", " ", "a", "n", "d",
      " ", "w", "w", "w", ".", "b", "a", "r", ".", "c", "o", "m">>

\* the texts handed to FindAllString: a mention, a mention with a scheme
\* followed by one without, a mention in prose, and the example
Texts ==
    SchemeMentions \cup BareMentions \cup PathMentions
        \cup { m \o <<" ">> \o b : m \in SchemeMentions, b \in BareMentions }
        \cup {ExampleText}

\* the extractor's fields
Config ==
    [withScheme |-> withScheme, withSchemePattern |-> withSchemePattern,
     withHost |-> withHost, withHostPattern |-> withHostPattern]

\* New() without options
InitExtractor ==
    /\ NewParser
    /\ NoReparse
    /\ NoCalls
    /\ SharedTables
    /\ NoDomainExtractor
    /\ withScheme = FALSE
    /\ withSchemePattern = <<>>
    /\ withHost = FALSE
    /\ withHostPattern = <<>>
    /\ epc = "new"
    /\ regex = NoRegex
    /\ text = <<>>
    /\ found = <<>>

\* e.WithScheme()
WithScheme ==
    /\ epc = "new"
    /\ withScheme' = TRUE
    /\ UNCHANGED <<withSchemePattern, withHost, withHostPattern,
                   epc, regex, text, found>>
    /\ UNCHANGED <<pvars, rvars, cvars, tvars>>

\* WithSchemePattern as it would be without the call of e.WithScheme()
WithSchemePatternOnly(p) ==
    /\ epc = "new"
    /\ withSchemePattern' = p
    /\ UNCHANGED <<withScheme, withHost, withHostPattern,
                   epc, regex, text, found>>
    /\ UNCHANGED <<pvars, rvars, cvars, tvars>>

\* e.WithSchemePattern(pattern)
WithSchemePattern(p) ==
    /\ epc = "new"
    /\ withScheme' = TRUE
    /\ withSchemePattern' = p
    /\ UNCHANGED <<withHost, withHostPattern, epc, regex, text, found>>
    /\ UNCHANGED <<pvars, rvars, cvars, tvars>>

\* e.WithHost()
WithHost ==
    /\ epc = "new"
    /\ withHost' = TRUE
    /\ UNCHANGED <<withScheme, withSchemePattern, withHostPattern,
                   epc, regex, text, found>>
    /\ UNCHANGED <<pvars, rvars, cvars, tvars>>

\* e.WithHostPattern(pattern)
WithHostPattern(p) ==
    /\ epc = "new"
    /\ withHost' = TRUE
    /\ withHostPattern' = p
    /\ UNCHANGED <<withScheme, withSchemePattern, epc, regex, text, found>>
    /\ UNCHANGED <<pvars, rvars, cvars, tvars>>

\* regex := e.CompileRegex(): the matcher, or a panic
Compiles ==
    /\ epc = "new"
    /\ regex' = CompileRegex(Config)
    /\ epc' = IF regex'.ok THEN "compiled" ELSE "panicked"
    /\ tlds' = [tlds EXCEPT
                   !.Official = arrayAfterAppend(tlds.Official, tlds.Pseudo)]
    /\ UNCHANGED <<withScheme, withSchemePattern, withHost, withHostPattern,
                   text, found>>
    /\ UNCHANGED <<schemes, domainExtractor>>
    /\ UNCHANGED <<pvars, rvars, cvars>>

\* regex.FindAllString(t, -1)
FindAll(t) ==
    /\ epc = "compiled"
    /\ text' = t
    /\ found' = FindAllString(regex, t)
    /\ epc' = "found"
    /\ UNCHANGED <<withScheme, withSchemePattern, withHost, withHostPattern,
                   regex>>
    /\ UNCHANGED <<pvars, rvars, cvars, tvars>>

NextExtractor ==
    \/ WithScheme
    \/ \E p \in SchemePatterns : WithSchemePattern(p)
    \/ WithHost
    \/ \E p \in HostPatterns : WithHostPattern(p)
    \/ Compiles
    \/ \E t \in Texts : FindAll(t)

SpecExtractor == InitExtractor /\ [][NextExtractor]_vars

-----------------------------------------------------------------------------
(* The port pattern on its own: regexp.MustCompile(ExtractorPortPattern)   *)
(* matched against a whole string.                                         *)

\* the longest digit run of the strings tried
MaxPortDigits == 5

\* the digits the strings tried are written with
PortDigits == {"0", "3", "5", "6"}

\* the digit runs of up to n digits
RECURSIVE DigitRuns(_)
DigitRuns(n) ==
    IF n = 0 THEN {}
    ELSE { <<d>> : d \in PortDigits }
             \cup DigitRuns(n - 1)
             \cup { Append(r, d) : r \in DigitRuns(n - 1), d \in PortDigits }

\* the strings tried: a digit run, with and without ":" before it
PortTexts ==
    DigitRuns(MaxPortDigits) \cup { <<":">> \o r : r \in DigitRuns(MaxPortDigits) }

\* a string is chosen, nothing is matched yet
InitPort ==
    /\ NewParser
    /\ NoReparse
    /\ NoCalls
    /\ SharedTables
    /\ NoDomainExtractor
    /\ withScheme = FALSE
    /\ withSchemePattern = <<>>
    /\ withHost = FALSE
    /\ withHostPattern = <<>>
    /\ epc = "port"
    /\ regex = NoRegex
    /\ text \in PortTexts
    /\ found = <<>>

\* the whole of the text is matched against the port pattern
MatchPort ==
    /\ epc = "port"
    /\ regex' = MustCompile(ExtractorPortPattern)
    /\ found' = IF Len(text) \in Ends(regex'.prog, text, 0)
                THEN <<[start |-> 0, end |-> Len(text), str |-> text]>>
                ELSE <<>>
    /\ epc' = "matched"
    /\ UNCHANGED <<withScheme, withSchemePattern, withHost, withHostPattern, text>>
    /\ UNCHANGED <<pvars, rvars, cvars, tvars>>

NextPort == MatchPort

SpecPort == InitPort /\ [][NextPort]_vars

-----------------------------------------------------------------------------
(* The IPv4 pattern on its own: regexp.MustCompile(ExtractorIPv4Pattern)   *)
(* matched against a whole dotted quad.                                    *)

\* the octets the quads tried are written with: numerals up to 255,
\* numerals above 255, and numerals with a leading zero
Octets ==
    { <<"0">>, <<"7">>, <<"0", "7">>, <<"9", "9">>, <<"1", "9", "9">>,
      <<"2", "4", "9">>, <<"2", "5", "5">>, <<"2", "5", "6">>,
      <<"2", "6", "0">>, <<"9", "9", "9">> }

\* the dotted quads tried
QuadTexts ==
    { a \o <<".">> \o b \o <<".">> \o c \o <<".">> \o d :
        a \in Octets, b \in Octets, c \in Octets, d \in Octets }

\* a quad is chosen, nothing is matched yet
InitIPv4 ==
    /\ NewParser
    /\ NoReparse
    /\ NoCalls
    /\ SharedTables
    /\ NoDomainExtractor
    /\ withScheme = FALSE
    /\ withSchemePattern = <<>>
    /\ withHost = FALSE
    /\ withHostPattern = <<>>
    /\ epc = "ipv4"
    /\ regex = NoRegex
    /\ text \in QuadTexts
    /\ found = <<>>

\* the whole of the text is matched against the IPv4 pattern
MatchIPv4 ==
    /\ epc = "ipv4"
    /\ regex' = MustCompile(ExtractorIPv4Pattern)
    /\ found' = IF Len(text) \in Ends(regex'.prog, text, 0)
                THEN <<[start |-> 0, end |-> Len(text), str |-> text]>>
                ELSE <<>>
    /\ epc' = "matchedIPv4"
    /\ UNCHANGED <<withScheme, withSchemePattern, withHost, withHostPattern, text>>
    /\ UNCHANGED <<pvars, rvars, cvars, tvars>>

NextIPv4 == MatchIPv4

SpecIPv4 == InitIPv4 /\ [][NextIPv4]_vars

-----------------------------------------------------------------------------
(* URLParser.Parse, one call after another: addScheme, url.Parse,          *)
(* Hostname, net.ParseIP and the domain parser.                            *)

\* the part of s before the first c, the whole of s when c does not occur
BeforeFirst(s, c) ==
    LET at == { i \in DOMAIN s : s[i] = c } IN
    IF at = {} THEN s
    ELSE SubSeq(s, 1, (CHOOSE i \in at : \A j \in at : i <= j) - 1)

\* strings.LastIndexByte(s, c), 1-based; 0 when c does not occur
LastIndex(s, c) ==
    LET at == { i \in DOMAIN s : s[i] = c } IN
    IF at = {} THEN 0 ELSE CHOOSE i \in at : \A j \in at : j <= i

\* no error
NoError == ""

\* getScheme of net/url: letters, and after the first character digits,
\* "+", "-" and "."; up to a ":", which must not come first
getScheme(rawURL) ==
    LET stops == { i \in DOMAIN rawURL :
                     /\ rawURL[i] \notin alphaCharacterSet
                     /\ ~(i > 1 /\ rawURL[i] \in digitCHaracterSet \cup {"+", "-", "."}) }
        none == [scheme |-> <<>>, rest |-> rawURL, err |-> NoError]
    IN IF stops = {} THEN none
       ELSE LET i == CHOOSE i \in stops : \A j \in stops : i <= j IN
            IF rawURL[i] # ":" THEN none
            ELSE IF i = 1
                 THEN [scheme |-> <<>>, rest |-> <<>>,
                       err |-> "missing protocol scheme"]
                 ELSE [scheme |-> SubSeq(rawURL, 1, i - 1),
                       rest |-> SubSeq(rawURL, i + 1, Len(rawURL)),
                       err |-> NoError]

\* validOptionalPort of net/url: empty, or ":" and digits
validOptionalPort(port) ==
    \/ port = <<>>
    \/ /\ port[1] = ":"
       /\ \A i \in 2..Len(port) : port[i] \in digitCHaracterSet

\* the characters of the model's strings that url.Parse refuses in a host
InvalidHostChars == {" ", "/", "?", "#", "@", "%"}

\* parseHost of net/url: the error it returns, NoError when there is none
parseHost(host) ==
    LET colonPort ==
            IF HasPrefix(host, <<"[">>)
            THEN SubSeq(host, LastIndex(host, "]") + 1, Len(host))
            ELSE IF LastIndex(host, ":") # 0
                 THEN SubSeq(host, LastIndex(host, ":"), Len(host))
                 ELSE <<>>
    IN IF HasPrefix(host, <<"[">>) /\ LastIndex(host, "]") = 0
       THEN "missing ']' in host"
       ELSE IF ~validOptionalPort(colonPort) THEN "invalid port after host"
       ELSE IF \E i \in DOMAIN host : host[i] \in InvalidHostChars
            THEN "invalid character in host name"
            ELSE NoError

\* parseAuthority of net/url: the host after the last "@", and the error
parseAuthority(authority) ==
    LET i == LastIndex(authority, "@")
        host == SubSeq(authority, i + 1, Len(authority))
        userinfo == SubSeq(authority, 1, i - 1)
    IN IF i # 0 /\ \E k \in DOMAIN userinfo : userinfo[k] \in {" ", "/", "?", "#", "[", "]"}
       THEN [Host |-> <<>>, err |-> "invalid userinfo"]
       ELSE [Host |-> host, err |-> parseHost(host)]

\* url.Parse(rawURL): the scheme and the host of the URL, and the error
urlParse(rawURL) ==
    LET g == getScheme(BeforeFirst(rawURL, "#"))
        rest == BeforeFirst(g.rest, "?")
        failed(e) == [Scheme |-> <<>>, Host |-> <<>>, err |-> e]
    IN IF g.err # NoError THEN failed(g.err)
       ELSE IF ~HasPrefix(rest, <<"/">>) /\ g.scheme # <<>>
            THEN [Scheme |-> Lower(g.scheme), Host |-> <<>>, err |-> NoError]
       ELSE IF ~HasPrefix(rest, <<"/">>) /\ Contains(BeforeFirst(rest, "/"), <<":">>)
            THEN failed("first path segment in URL cannot contain colon")
       ELSE IF /\ HasPrefix(rest, <<"/", "/">>)
               /\ g.scheme # <<>> \/ ~HasPrefix(rest, <<"/", "/", "/">>)
            THEN LET a == parseAuthority(
                              BeforeFirst(SubSeq(rest, 3, Len(rest)), "/"))
                 IN IF a.err # NoError THEN failed(a.err)
                    ELSE [Scheme |-> Lower(g.scheme), Host |-> a.Host,
                          err |-> NoError]
       ELSE [Scheme |-> Lower(g.scheme), Host |-> <<>>, err |-> NoError]

\* URL.Hostname() as it would be if the port and the brackets were kept
HostnameWithPort(Host) == Host

\* URL.Hostname(): the host without a valid port and without the brackets
\* of an IPv6 literal
URLHostname(Host) ==
    LET colon == LastIndex(Host, ":")
        host == IF colon # 0 /\ validOptionalPort(SubSeq(Host, colon, Len(Host)))
                THEN SubSeq(Host, 1, colon - 1)
                ELSE Host
    IN IF HasPrefix(host, <<"[">>) /\ Len(host) >= 2 /\ host[Len(host)] = "]"
       THEN SubSeq(host, 2, Len(host) - 1)
       ELSE host

\* the value of a decimal digit
DigitValue ==
    [d \in digitCHaracterSet |->
        CASE d = "0" -> 0 [] d = "1" -> 1 [] d = "2" -> 2 [] d = "3" -> 3
          [] d = "4" -> 4 [] d = "5" -> 5 [] d = "6" -> 6 [] d = "7" -> 7
          [] d = "8" -> 8 [] d = "9" -> 9]

\* the number a digit run denotes
RECURSIVE Decimal(_)
Decimal(r) ==
    IF r = <<>> THEN 0
    ELSE 10 * Decimal(SubSeq(r, 1, Len(r) - 1)) + DigitValue[r[Len(r)]]

\* net.ParseIP on dotted decimal: four fields of one to three digits, none
\* above 255, none with a leading zero
ParseIPv4(s) ==
    LET fields == Split(s, ".") IN
    /\ Len(fields) = 4
    /\ \A k \in DOMAIN fields :
          /\ Len(fields[k]) \in 1..3
          /\ \A i \in DOMAIN fields[k] : fields[k][i] \in digitCHaracterSet
          /\ Len(fields[k]) > 1 => fields[k][1] # "0"
          /\ Decimal(fields[k]) <= 255

\* the hexadecimal digits of the model's strings
HexDigits == digitCHaracterSet \cup {"a", "b", "c", "d", "e", "f", "A"}

\* net.ParseIP on the colon form: eight groups of one to four hexadecimal
\* digits, or fewer with one "::"
ParseIPv6(s) ==
    LET groups == Split(s, ":")
        n == Len(groups)
        empty == { k \in DOMAIN groups : groups[k] = <<>> }
    IN /\ \A k \in DOMAIN groups :
             /\ Len(groups[k]) <= 4
             /\ \A i \in DOMAIN groups[k] : groups[k][i] \in HexDigits
       /\ \/ empty = {} /\ n = 8
          \/ /\ n >= 3
             /\ n - Cardinality(empty) <= 7
             /\ \/ (n = 3 /\ empty = {1, 2, 3})
                \/ (empty = {1, 2})
                \/ (empty = {n - 1, n})
                \/ (Cardinality(empty) = 1 /\ empty \cap {1, n} = {})

\* net.ParseIP as it would be if it recognised nothing
ParseIPNothing(s) == FALSE

\* net.ParseIP(s) # nil
ParseIP(s) == ParseIPv4(s) \/ ParseIPv6(s)

\* the default schemes a parser is built with: none, "s", "https"
DefaultSchemes == { <<>>, <<"s">>, <<"h", "t", "t", "p", "s">> }

\* what the URLs handed to Parse begin with: nothing, "//", "://", a scheme
\* with and without "//", and a path with "//" inside
URLPrefixes ==
    { <<>>,
      <<"/", "/">>,
      <<":", "/", "/">>,
      <<"h", "t", "t", "p", ":", "/", "/">>,
      <<"m", "a", "i", "l", "t", "o", ":">>,
      <<"a", "/", "/">> }

\* the hosts of the URLs: none, names, IPv4 and IPv6 literals, with and
\* without a port, and hosts url.Parse refuses
URLHosts ==
    { <<>>,
      <<"e", "x", "a", "m", "p", "l", "e", ".", "c", "o", "m">>,
      <<"w", "w", "w", ".", "a", ".", "b">>,
      <<"l", "o", "c", "a", "l", "h", "o", "s", "t">>,
      <<"1", "9", "2", ".", "1", "6", "8", ".", "0", ".", "1">>,
      <<"9", "9", "9", ".", "1", ".", "1", ".", "1">>,
      <<"e", "x", "a", "m", "p", "l", "e", ".", "c", "o", "m", ":", "8", "0", "8", "0">>,
      <<"1", "9", "2", ".", "1", "6", "8", ".", "0", ".", "1", ":", "8", "0">>,
      <<"[", ":", ":", "1", "]">>,
      <<"[", "2", "0", "0", "1", ":", "d", "b", "8", ":", ":", "1", "]", ":", "1", "7", "0", "0", "0">>,
      <<"e", "x", "a", "m", "p", "l", "e", ".", "c", "o", "m", ":", "x">>,
      <<"[", ":", ":", "1">>,
      <<"a", " ", "b">>,
      <<"u", "@", "e", "x", "a", "m", "p", "l", "e", ".", "c", "o", "m">> }

\* the paths of the URLs
URLPaths ==
    { <<>>,
      <<"/", "f", "i", "l", "e", ".", "t", "x", "t">> }

\* the URLs handed to Parse
URLInputs ==
    { p \o h \o t : p \in URLPrefixes, h \in URLHosts, t \in URLPaths }

\* no call has returned
NotCalled ==
    [pc |-> "idle", unparsed |-> <<>>, inURL |-> <<>>,
     URL |-> [Scheme |-> <<>>, Host |-> <<>>, err |-> NoError],
     err |-> <<>>, Domain |-> 0]

\* NewURLParser(URLParserWithDefaultScheme(scheme)): the default domain
\* parser and the scheme
InitURL ==
    /\ NewParser
    /\ NoReparse
    /\ scheme \in DefaultSchemes
    /\ call = NotCalled
    /\ heap = <<>>
    /\ NoExtractor
    /\ SharedTables
    /\ NoDomainExtractor

\* URLParser.Parse as it would be if the domain were parsed before the
\* error of url.Parse is looked at
URLParserParseBeforeCheck(raw) ==
    LET inURL == IF scheme # <<>> THEN addScheme(raw, scheme) ELSE raw
        u == urlParse(inURL)
    IN /\ heap' = <<ParseDomain(sa, URLHostname(u.Host))>>
       /\ call' = [pc |-> "returned", unparsed |-> raw, inURL |-> inURL,
                   URL |-> u,
                   err |-> IF u.err # NoError
                           THEN <<"error parsing URL: ", u.err>> ELSE <<>>,
                   Domain |-> 1]
       /\ UNCHANGED scheme
       /\ UNCHANGED <<pvars, rvars, evars, tvars>>

\* URLParser.Parse(raw): parsed.URL with its error, and parsed.Domain,
\* 0 for nil and otherwise the address of the record of the domain parser
URLParserParse(raw) ==
    LET inURL == IF scheme # <<>> THEN addScheme(raw, scheme) ELSE raw
        u == urlParse(inURL)
    IN /\ IF u.err # NoError
          THEN /\ heap' = <<>>
               /\ call' = [pc |-> "returned", unparsed |-> raw,
                           inURL |-> inURL, URL |-> u,
                           err |-> <<"error parsing URL: ", u.err>>,
                           Domain |-> 0]
          ELSE IF ParseIP(URLHostname(u.Host))
          THEN /\ heap' = <<>>
               /\ call' = [pc |-> "returned", unparsed |-> raw,
                           inURL |-> inURL, URL |-> u, err |-> <<>>,
                           Domain |-> 0]
          ELSE /\ heap' = <<ParseDomain(sa, URLHostname(u.Host))>>
               /\ call' = [pc |-> "returned", unparsed |-> raw,
                           inURL |-> inURL, URL |-> u, err |-> <<>>,
                           Domain |-> 1]
       /\ UNCHANGED scheme
       /\ UNCHANGED <<pvars, rvars, evars, tvars>>

NextURL == \E raw \in URLInputs : URLParserParse(raw)

SpecURL == InitURL /\ [][NextURL]_vars

-----------------------------------------------------------------------------
(* DomainExtractor.CompileRegex, and the two extractors over suffix lists  *)
(* that the tests put in the place of tlds.Official.                       *)

\* RootDomainPattern of CompileRegex: _subdomainPattern, or the override
\* after any number of labels and before a dot
RootDomainPattern(e) ==
    IF e.RootDomainPattern # <<>>
    THEN <<"(?:", "\\w", "+", "[.]", ")", "*">> \o e.RootDomainPattern
             \o <<"\\.">>
    ELSE subdomainPattern

\* TopLevelDomainPattern of CompileRegex: the known suffixes, or the
\* override
TopLevelDomainPattern(e) ==
    IF e.TopLevelDomainPattern # <<>> THEN e.TopLevelDomainPattern
    ELSE knownTLDPattern

\* pattern of DomainExtractor.CompileRegex: "localhost" is an alternative
\* only when neither override is set
domainExtractorPattern(e) ==
    IF e.RootDomainPattern = <<>> /\ e.TopLevelDomainPattern = <<>>
    THEN <<"(?:">> \o RootDomainPattern(e) \o TopLevelDomainPattern(e)
             \o <<"|", "l", "o", "c", "a", "l", "h", "o", "s", "t", ")">>
    ELSE <<"(?:">> \o RootDomainPattern(e) \o TopLevelDomainPattern(e)
             \o <<")">>

\* DomainExtractor.CompileRegex
DomainExtractorCompileRegex(e) ==
    [MustCompile(domainExtractorPattern(e)) EXCEPT !.longest = TRUE]

\* regex.MatchString(s)
MatchString(rx, s) == Find(rx, s, 0) # <<>>

\* the lists in the place of tlds.Official: the model's own, one without
\* an entry beyond ASCII, one as in the tests, and one that begins beyond
\* ASCII
OfficialLists ==
    { Official,
      << <<"a">>, <<"b">>, <<"c", "o", "m">> >>,
      << <<"c", "o", "m">>, <<"o", "r", "g">>, <<UcsChar, UcsChar>> >>,
      << <<UcsChar>>, <<"c", "o", "m">> >> }

\* the entries of a list
Range(list) == { list[i] : i \in DOMAIN list }

\* a host name under every suffix of the lists, and the hosts of the tests
SuffixTexts ==
    { <<"x", ".">> \o s :
          s \in UNION { Range(l) : l \in OfficialLists } \cup Range(Pseudo) }
    \cup { <<"e", "x", "a", "m", "p", "l", "e", ".", "c", "o", "m">>,
           <<"l", "o", "c", "a", "l", "h", "o", "s", "t">>,
           <<"i", "n", "v", "a", "l", "i", "d", "_", "d", "o", "m", "a", "i", "n">> }

\* the root-domain patterns handed to DomainExtractorWithRootDomainPattern
RootDomainPatterns == { <<>>, <<"e", "x", "a", "m", "p", "l", "e">> }

\* the patterns handed to DomainExtractorWithTLDPattern
TLDPatterns == { <<>>, <<"c", "o", "m">> }

\* New() and NewDomainExtractor() without options, over one of the lists
InitCompile ==
    /\ NewParser
    /\ NoReparse
    /\ NoCalls
    /\ withScheme = FALSE
    /\ withSchemePattern = <<>>
    /\ withHost = FALSE
    /\ withHostPattern = <<>>
    /\ epc = "new"
    /\ regex = NoRegex
    /\ text = <<>>
    /\ found = <<>>
    /\ \E official \in OfficialLists :
           tlds = [Official |-> official, Pseudo |-> Pseudo]
    /\ schemes = [NoAuthority |-> NoAuthority]
    /\ NoDomainExtractor

\* DomainExtractorWithRootDomainPattern(p)
DomainExtractorWithRootDomainPattern(p) ==
    /\ epc = "new"
    /\ domainExtractor' = [domainExtractor EXCEPT !.RootDomainPattern = p]
    /\ UNCHANGED <<tlds, schemes>>
    /\ UNCHANGED <<pvars, rvars, cvars, evars>>

\* DomainExtractorWithTLDPattern(p)
DomainExtractorWithTLDPattern(p) ==
    /\ epc = "new"
    /\ domainExtractor' = [domainExtractor EXCEPT !.TopLevelDomainPattern = p]
    /\ UNCHANGED <<tlds, schemes>>
    /\ UNCHANGED <<pvars, rvars, cvars, evars>>

\* regex := extractor.CompileRegex() on the domain extractor, as the first
\* matcher or after the URL extractor's
CompilesDomain ==
    /\ epc \in {"new", "compiled"}
    /\ regex' = DomainExtractorCompileRegex(domainExtractor)
    /\ epc' = IF regex'.ok THEN "compiledDomain" ELSE "panicked"
    /\ tlds' = [tlds EXCEPT
                   !.Official = arrayAfterAppend(tlds.Official, tlds.Pseudo)]
    /\ UNCHANGED <<withScheme, withSchemePattern, withHost, withHostPattern,
                   text, found>>
    /\ UNCHANGED <<schemes, domainExtractor>>
    /\ UNCHANGED <<pvars, rvars, cvars>>

\* regex.MatchString(t) on the domain extractor's matcher
Matches(t) ==
    /\ epc = "compiledDomain"
    /\ text' = t
    /\ found' = MatchString(regex, t)
    /\ epc' = "matched"
    /\ UNCHANGED <<withScheme, withSchemePattern, withHost, withHostPattern,
                   regex>>
    /\ UNCHANGED <<pvars, rvars, cvars, tvars>>

\* the options of the URL extractor are the overrides with an empty pattern
NextCompile ==
    \/ WithSchemePattern(<<>>)
    \/ WithHostPattern(<<>>)
    \/ Compiles
    \/ \E t \in SuffixTexts : FindAll(t)
    \/ \E p \in RootDomainPatterns : DomainExtractorWithRootDomainPattern(p)
    \/ \E p \in TLDPatterns : DomainExtractorWithTLDPattern(p)
    \/ CompilesDomain
    \/ \E t \in SuffixTexts : Matches(t)

SpecCompile == InitCompile /\ [][NextCompile]_vars

-----------------------------------------------------------------------------
(* Vocabulary of the properties.                                           *)

\* a Parse call has returned
Returned == pc \in {"parsed", "joined"}

\* the labels of the host handed to Parse
Labels == Split(unparsed, Dot)

\* the right-aligned dot-joined label sequence of the host from 0-based index i
RightAligned(i) == Join(SliceFrom(Labels, i), Dot)

\* the entries of a suffix list
Entries(TLDs) == { TLDs[i] : i \in DOMAIN TLDs }

\* the lookup of s in the parser's index succeeds
Found(s) == Lookup(sa, s) # {}

\* no label of the host is empty (no leading, trailing or consecutive dot)
NoEmptyLabel == \A i \in DOMAIN Labels : Labels[i] # <<>>

\* the record of "no suffix": the whole input is the registrable domain
WholeInput == [Subdomain |-> <<>>, SLD |-> unparsed, TLD |-> <<>>]

-----------------------------------------------------------------------------
(* C1: round trip.                                                         *)

\* C1 as claimed: whenever Parse returns a non-empty suffix, String reproduces
\* the input exactly, hosts with empty labels included.
C1_RoundTrip ==
    (pc = "joined" /\ parsed.TLD # <<>>) => domain = unparsed

\* C1 amended: whenever Parse returns a non-empty suffix for a host without
\* empty labels, String reproduces the input exactly.
C1_RoundTripNoEmptyLabel ==
    (pc = "joined" /\ parsed.TLD # <<>> /\ NoEmptyLabel) => domain = unparsed

\* a three-part host has been parsed and reassembled
C1_Witness ==
    /\ pc = "joined"
    /\ NoEmptyLabel
    /\ parsed.TLD # <<>>
    /\ parsed.Subdomain # <<>>
    /\ domain = unparsed

-----------------------------------------------------------------------------
(* C2: the longest listed suffix wins.                                     *)

\* the 0-based indices i >= 1 whose right-aligned sequence is a listed entry
ListedFrom == { i \in 1..(Len(Labels) - 1) : RightAligned(i) \in Entries(built) }

\* the longest right-aligned label sequence that is an entry, "" if none
LongestListed ==
    IF ListedFrom = {} THEN <<>>
    ELSE RightAligned(CHOOSE i \in ListedFrom : \A j \in ListedFrom : i <= j)

\* C2 as claimed: for a host of at least two labels that is not itself a
\* listed suffix, the suffix returned is the longest right-aligned label
\* sequence that is an entry of the suffix list.
C2_LongestListedSuffix ==
    (Returned /\ Len(Labels) >= 2 /\ unparsed \notin Entries(built))
        => parsed.TLD = LongestListed

-----------------------------------------------------------------------------
(* C3: exact-match lookup.                                                 *)

\* the lookup of RightAligned(i) is one Parse performs: every shorter
\* right-aligned sequence was found
LookedUp(i) ==
    /\ Len(Labels) > 1
    /\ \A j \in (i + 1)..(Len(Labels) - 1) : Found(RightAligned(j))

\* C3 as claimed: a right-aligned label sequence looked up during Parse is
\* found if and only if it is exactly equal to an entry of the suffix list.
C3_ExactMatch ==
    Returned =>
        \A i \in 0..(Len(Labels) - 1) :
            LookedUp(i) => (Found(RightAligned(i)) <=> RightAligned(i) \in Entries(built))

-----------------------------------------------------------------------------
(* C4: the two states of a domain record.                                  *)

\* state (ii): no suffix, the whole input is the registrable domain
C4_NoSuffixState == parsed = WholeInput

\* state (i) as claimed: registrable domain and suffix both non-empty
C4_SuffixState == parsed.SLD # <<>> /\ parsed.TLD # <<>>

\* C4 as claimed: every record Parse returns is in exactly one of (i), (ii).
C4_RecordStates ==
    Returned => (C4_SuffixState /\ ~C4_NoSuffixState) \/ (~C4_SuffixState /\ C4_NoSuffixState)

\* state (i) amended: suffix non-empty, and the registrable domain non-empty
\* when the host has no empty label
C4_SuffixStateAmended == parsed.TLD # <<>> /\ (NoEmptyLabel => parsed.SLD # <<>>)

\* C4 amended: every record Parse returns is in exactly one of two states:
\* (i) suffix non-empty, with the registrable domain non-empty whenever the
\* host has no empty label, or (ii) the whole input as registrable domain
\* with subdomain and suffix empty.
C4_RecordStatesAmended ==
    Returned =>
        \/ C4_SuffixStateAmended /\ ~C4_NoSuffixState
        \/ ~C4_SuffixStateAmended /\ C4_NoSuffixState

\* a record in state (i) with all three parts
C4_Witness ==
    /\ pc = "parsed"
    /\ NoEmptyLabel
    /\ parsed.TLD # <<>>
    /\ parsed.SLD # <<>>
    /\ parsed.Subdomain # <<>>

-----------------------------------------------------------------------------
(* C5: single-label input.                                                 *)

\* C5: for an input without a dot (the empty string and a label that is
\* itself a listed suffix included) Parse returns the input as registrable
\* domain with subdomain and suffix empty.
C5_SingleLabel ==
    (Returned /\ \A i \in DOMAIN unparsed : unparsed[i] # Dot) => parsed = WholeInput

\* a single label that is itself a listed suffix has been parsed
C5_Witness ==
    /\ pc = "parsed"
    /\ unparsed # <<>>
    /\ \A i \in DOMAIN unparsed : unparsed[i] # Dot
    /\ unparsed \in Entries(built)
    /\ parsed.SLD = unparsed

-----------------------------------------------------------------------------
(* C6: unrecognised rightmost label.                                       *)

\* C6: for a host of several labels whose rightmost label is not found in
\* the index, Parse returns the whole input as registrable domain with
\* subdomain and suffix empty.
C6_UnrecognisedTLD ==
    (Returned /\ Len(Labels) > 1 /\ ~Found(Labels[Len(Labels)])) => parsed = WholeInput

\* a host of three non-empty labels with an unrecognised last label
C6_Witness ==
    /\ pc = "parsed"
    /\ Len(Labels) = 3
    /\ NoEmptyLabel
    /\ ~Found(Labels[3])
    /\ parsed.SLD = unparsed

-----------------------------------------------------------------------------
(* C7: every listed suffix is returned for "example." + suffix.            *)

\* the label 'example'
Example == <<"b">>

\* the host "example." + s
ExampleDot(s) == Example \o <<Dot>> \o s

\* C7 as claimed: for every entry s of the suffix list, Parse("example." + s)
\* returns suffix exactly s.
C7_ListedSuffixReturned ==
    Returned =>
        \A i \in DOMAIN built :
            unparsed = ExampleDot(built[i]) => parsed.TLD = built[i]

\* C7 amended: for every entry s of the suffix list that does not end in a
\* dot, Parse("example." + s) returns suffix exactly s unless "example." + s
\* is itself found in the index, and then it returns the whole host as
\* registrable domain with no suffix.
C7_ListedSuffixReturnedAmended ==
    Returned =>
        \A i \in DOMAIN built :
            (unparsed = ExampleDot(built[i]) /\ built[i][Len(built[i])] # Dot)
                => IF Found(unparsed) THEN parsed = WholeInput
                   ELSE parsed.TLD = built[i] /\ parsed.SLD = Example

\* "example." + a two-label entry has been parsed and the entry returned
C7_Witness ==
    /\ pc = "parsed"
    /\ \E i \in DOMAIN built :
          /\ unparsed = ExampleDot(built[i])
          /\ \E j \in DOMAIN built[i] : built[i][j] = Dot
          /\ parsed.TLD = built[i]

-----------------------------------------------------------------------------
(* C8: a custom suffix list replaces the default list.                     *)

\* the index New() builds by default
DefaultIndex == Index(Official \o Pseudo)

\* C8: with a parser built with WithTLDs(L), a returned suffix occurs in L; a
\* host whose rightmost label is not found on the basis of L has no suffix,
\* whatever the default list holds; and a two-label host "x.s" with s an
\* entry of L, not itself found on the basis of L, has suffix s.
C8_CustomReplacesDefault ==
    (Returned /\ customised) =>
        /\ parsed.TLD # <<>> => Lookup(Index(built), parsed.TLD) # {}
        /\ (Len(Labels) > 1 /\ Lookup(Index(built), Labels[Len(Labels)]) = {})
              => parsed = WholeInput
        /\ (Len(Labels) = 2 /\ Labels[2] \in Entries(built)
              /\ Lookup(Index(built), unparsed) = {})
              => parsed.TLD = Labels[2]

\* a host whose suffix only the default list knows has been parsed by a
\* parser with a custom list, and no suffix was returned
C8_Witness ==
    /\ pc = "parsed"
    /\ customised
    /\ Len(Labels) = 2
    /\ Labels[1] # <<>>
    /\ Lookup(DefaultIndex, Labels[2]) # {}
    /\ Lookup(Index(built), Labels[2]) = {}
    /\ built # <<>>
    /\ parsed = WholeInput

-----------------------------------------------------------------------------
(* C9: a host that is itself a public suffix.                              *)

\* C9: when every right-aligned label sequence of a host of several labels,
\* the whole host included, is found in the index, Parse returns the whole
\* host as registrable domain with subdomain and suffix empty.
C9_HostIsSuffix ==
    (Returned /\ Len(Labels) > 1 /\ \A i \in 0..(Len(Labels) - 1) : Found(RightAligned(i)))
        => parsed = WholeInput

\* a two-label host that is a listed suffix has been parsed
C9_Witness ==
    /\ pc = "parsed"
    /\ Len(Labels) = 2
    /\ unparsed \in Entries(built)
    /\ Labels[2] \in Entries(built)
    /\ parsed = WholeInput

-----------------------------------------------------------------------------
(* C10: the lookup is case-sensitive.                                      *)

\* strings.EqualFold
EqualFold(s, t) == Lower(s) = Lower(t)

\* the rightmost label differs from every listed suffix only by letter case
DiffersOnlyByCase ==
    /\ Len(Labels) > 1
    /\ built # <<>>
    /\ \A i \in DOMAIN built :
          built[i] # Labels[Len(Labels)] /\ EqualFold(built[i], Labels[Len(Labels)])

\* the returned parts are the input's labels as given: the whole input, or
\* the labels left of, at and right of one index
KeepsLabels ==
    \/ parsed = WholeInput
    \/ \E k \in 0..(Len(Labels) - 2) :
          /\ parsed.Subdomain = Join(SliceTo(Labels, k), Dot)
          /\ parsed.SLD = Labels[k + 1]
          /\ parsed.TLD = Join(SliceFrom(Labels, k + 1), Dot)

\* C10: for a host whose rightmost label differs from every listed suffix
\* only by letter case Parse recognizes no suffix, and in every result the
\* returned parts keep the labels of the input as given.
C10_CaseSensitive ==
    Returned =>
        /\ DiffersOnlyByCase => parsed = WholeInput
        /\ KeepsLabels

\* a host ending in an upper-case variant of the only listed suffix has been
\* parsed and no suffix was returned
C10_Witness ==
    /\ pc = "parsed"
    /\ DiffersOnlyByCase
    /\ Labels[1] # <<>>
    /\ parsed.TLD = <<>>

-----------------------------------------------------------------------------
(* Totality of Parse.                                                      *)

\* the number of lookups the Parse call made
Lookups ==
    IF Len(Labels) <= 1 THEN 0
    ELSE findTLDOffsetLookups(sa, Labels, Len(Labels) - 1)

\* C11: for every suffix list and every input, Parse returns a record
\* without failing: the boundary index it computes is -1 or a valid 0-based
\* index into the labels, and the scan made at most one lookup per label
C11_ParseTotal ==
    Returned =>
        /\ parsed # Panicked
        /\ DOMAIN parsed = {"Subdomain", "SLD", "TLD"}
        /\ Lookups <= Len(Labels)
        /\ Len(Labels) > 1 =>
              findTLDOffset(sa, Labels) \in -1..(Len(Labels) - 1)

\* Parse scanned every label of a host with an empty label, under a custom
\* list, and found a boundary
C11_Witness ==
    /\ pc = "parsed"
    /\ customised
    /\ ~NoEmptyLabel
    /\ Len(Labels) > 1
    /\ Lookups = Len(Labels)

-----------------------------------------------------------------------------
(* The suffix index of a parser in use.                                    *)

\* C13 as stated: after New() has returned the index never changes, and two
\* Parse calls with the same input on the same parser agree
C13_Immutable ==
    /\ sa = DefaultIndex
    /\ pc = "reparsed" => reparsed = parsed

\* C13: the index is only ever the index built from one whole list (the
\* default one or the arguments of the last SetTLDs), Parse leaves it as
\* it is, and two Parse calls with the same input agree when no SetTLDs
\* call came between them
C13_RebuiltWholesale ==
    /\ sa = Index(built)
    /\ ~customised => sa = DefaultIndex
    /\ (pc = "reparsed" /\ ~customised) => reparsed = parsed

\* SetTLDs came between two Parse calls with the same input, and they
\* disagree
C13_Witness ==
    /\ pc = "reparsed"
    /\ customised
    /\ sa = Index(built)
    /\ reparsed # parsed

-----------------------------------------------------------------------------
(* Concurrent Parse calls.                                                 *)

\* the record a Parse call with this raw URL returns when it runs alone
Alone(raw) ==
    ParseDomain(sa, Hostname(IF scheme # <<>> THEN addScheme(raw, scheme)
                             ELSE raw))

\* every call that has returned holds the record it would return alone,
\* and no two calls hold the same record
SameAsAlone ==
    /\ \A c \in Callers :
          call[c].pc = "done" => heap[call[c].ret] = Alone(call[c].raw)
    /\ \A c, d \in Callers :
          (c # d /\ call[c].ret # 0 /\ call[d].ret # 0)
              => call[c].ret # call[d].ret

\* C12: no step of a Parse call changes the suffix index or the default
\* scheme, every call returns a record of its own, and under every
\* interleaving of concurrent calls each returns the record it would
\* return when run alone
C12_ParseReadsOnly ==
    /\ []SameAsAlone
    /\ [][sa' = sa /\ scheme' = scheme]_vars

\* a call that began after another allocated its record has returned a
\* suffix while the other is still scanning
C12_Witness ==
    /\ call["c1"].pc = "done"
    /\ call["c1"].ret > 1
    /\ heap[call["c1"].ret].TLD # <<>>
    /\ call["c2"].pc = "findTLDOffset"
    /\ call["c2"].ret = 1

-----------------------------------------------------------------------------
(* The extractor's configuration and the pattern it compiles.              *)

\* C14: after any sequence of options and setters a non-empty scheme
\* override implies that a scheme is required, and a non-empty host
\* override that a host is required
C14_OverrideImpliesRequire ==
    /\ withSchemePattern # <<>> => withScheme
    /\ withHostPattern # <<>> => withHost

\* both overrides have been set
C14_Witness ==
    /\ epc = "new"
    /\ withSchemePattern # <<>>
    /\ withHostPattern # <<>>
    /\ withScheme
    /\ withHost

\* the three forms: (i) scheme-anchored, (ii) authority and path or relaxed
\* email, (iii) relative path
FormI == URLsWithSchemePattern(Config)
FormII == URLsWithHostPattern(Config)
FormIII == RelativeURLsPattern

\* C15: the pattern handed to the compiler is fixed by the configuration:
\* (i) alone when a scheme is required, whether or not a host is required
\* too; otherwise (i) | (ii) when a host is required; otherwise
\* (i) | (ii) | (iii)
C15_PatternByConfiguration ==
    epc # "new" =>
        regex.pattern =
            IF withScheme THEN FormI
            ELSE IF withHost THEN FormI \o <<"|">> \o FormII
            ELSE FormI \o <<"|">> \o FormII \o <<"|">> \o FormIII

\* a matcher was compiled with both a scheme and a host required, from
\* form (i) alone
C15_Witness ==
    /\ epc = "compiled"
    /\ withScheme
    /\ withHost
    /\ regex.pattern = FormI

-----------------------------------------------------------------------------
(* What FindAllString returns.                                             *)

\* the strings returned
Strings == [k \in DOMAIN found |-> found[k].str]

\* str begins with a generic scheme "name://" or with a listed no-authority
\* scheme "name:"
BeginsWithScheme(str) ==
    \/ \E k \in 2..(Len(str) - 2) :
          /\ SubSeq(str, k, k + 2) = <<":", "/", "/">>
          /\ str[1] \in alphaCharacterSet
          /\ \A j \in 2..(k - 1) : str[j] \in alphaCharacterSet \cup {".", "-", "+"}
    \/ \E n \in DOMAIN NoAuthority : HasPrefix(str, NoAuthority[n] \o <<":">>)

\* "http://foo.com/bar"
ExampleURL ==
    <<"h", "t", "t", "p", ":", "/", "/", "f", "o", "o", ".", "c", "o", "m",
      "/", "b", "a", "r">>

\* C16: with a scheme required every string FindAllString returns begins
\* with a scheme, one the scheme pattern in force matches, so no mention
\* without a scheme is returned; the example text yields exactly
\* "http://foo.com/bar"
C16_SchemeRequired ==
    (epc = "found" /\ withScheme) =>
        /\ \A k \in DOMAIN found :
              /\ BeginsWithScheme(found[k].str)
              /\ Ends(Compile(schemePattern(Config)).re, found[k].str, 0) # {}
        /\ (text = ExampleText /\ withHostPattern = <<>>)
              => Strings = <<ExampleURL>>

\* the example: a scheme is required, nothing else is configured, and the
\* mention without a scheme is left out
C16_Witness ==
    /\ epc = "found"
    /\ withScheme
    /\ ~withHost
    /\ withSchemePattern = <<>>
    /\ text = ExampleText
    /\ Strings = <<ExampleURL>>

\* a sequence in reverse order
Reverse(l) == [i \in DOMAIN l |-> l[Len(l) + 1 - i]]

\* the end of the longest match of the k-th alternative of the compiled
\* pattern at offset i of the text, -1 when it does not match there
LongestOf(k, i) ==
    IF Ends(regex.prog.l[k], text, i) = {} THEN -1
    ELSE Max(Ends(regex.prog.l[k], text, i))

\* C17: every match returned is the longest of the matches the
\* alternatives of the compiled pattern have at its offset, and the matches
\* are the same with the alternatives in the opposite order
C17_LongestMatch ==
    epc = "found" =>
        /\ \A m \in DOMAIN found :
              \A k \in DOMAIN regex.prog.l :
                  LongestOf(k, found[m].start) <= found[m].end
        /\ found = FindAllString(
                       [regex EXCEPT !.prog.l = Reverse(regex.prog.l)], text)

\* an earlier alternative matches at the offset of a returned match, and a
\* later one matches further
C17_Witness ==
    /\ epc = "found"
    /\ \E m \in DOMAIN found :
          \E k, h \in DOMAIN regex.prog.l :
              /\ k < h
              /\ LongestOf(k, found[m].start) >= 0
              /\ LongestOf(k, found[m].start) < LongestOf(h, found[m].start)
              /\ LongestOf(h, found[m].start) = found[m].end

\* an override is set that is no regular expression
InvalidOverride ==
    \/ withSchemePattern # <<>> /\ ~Compile(withSchemePattern).ok
    \/ withHostPattern # <<>> /\ ~Compile(withHostPattern).ok

\* C18: when an override pattern is invalid CompileRegex panics; it never
\* returns a matcher
C18_InvalidOverridePanics ==
    (epc # "new" /\ InvalidOverride) => epc = "panicked"

\* a host override is set that is a regular expression
ValidHostOverride ==
    /\ withHost
    /\ withHostPattern # <<>>
    /\ Compile(withHostPattern).ok

\* str has a host the override matches: after the beginning, "//", ":" or
\* "@", and up to the end or a "/"
HasOverrideHost(str) ==
    \E a \in 0..Len(str) :
        /\ a = 0 \/ str[a] \in {"/", ":", "@"}
        /\ \E b \in Ends(Compile(withHostPattern).re, str, a) :
              b = Len(str) \/ str[b + 1] = "/"

\* "http://localhost", "http://192.168.1.1/setup", "www.other.com"
OtherHosts ==
    { <<"h", "t", "t", "p", ":", "/", "/", "l", "o", "c", "a", "l", "h", "o",
        "s", "t">>,
      <<"h", "t", "t", "p", ":", "/", "/", "1", "9", "2", ".", "1", "6", "8",
        ".", "1", ".", "1", "/", "s", "e", "t", "u", "p">>,
      <<"w", "w", "w", ".", "o", "t", "h", "e", "r", ".", "c", "o", "m">> }

\* C19: with a host override every string returned has a host the override
\* matches, in the scheme-anchored form too (which then has an authority),
\* and the mentions whose host the override does not match are not returned
C19_HostOverride ==
    (epc = "found" /\ ValidHostOverride) =>
        \A k \in DOMAIN found :
            /\ HasOverrideHost(found[k].str)
            /\ found[k].str \notin OtherHosts
            /\ withScheme => BeginsWithScheme(found[k].str)

\* of "http://localhost www.example.com" only the host of the override is
\* returned
C19_Witness ==
    /\ epc = "found"
    /\ ValidHostOverride
    /\ \E o \in OtherHosts : HasPrefix(text, o)
    /\ Len(found) = 1
    /\ found[1].start > 0
    /\ HasOverrideHost(found[1].str)

-----------------------------------------------------------------------------
(* The port pattern.                                                       *)

\* the text is ":" and a decimal number from 1 to 65535
PortInRange ==
    /\ Len(text) >= 2
    /\ text[1] = ":"
    /\ \A k \in 2..Len(text) : text[k] \in digitCHaracterSet
    /\ Decimal(Tail(text)) >= 1
    /\ Decimal(Tail(text)) <= 65535

\* C20: the port pattern accepts a string if and only if it is ":" followed
\* by a decimal number n with 1 <= n <= 65535
C20_PortRange ==
    epc = "matched" => (found # <<>> <=> PortInRange)

-----------------------------------------------------------------------------
(* The IPv4 pattern.                                                       *)

\* o is the decimal numeral, written without a leading zero, of a number
\* from 0 to 255
IsOctet(o) ==
    /\ o # <<>>
    /\ \A k \in DOMAIN o : o[k] \in digitCHaracterSet
    /\ Len(o) > 1 => o[1] # "0"
    /\ Decimal(o) <= 255

\* the four octets of the text
Quad == Split(text, ".")

\* C21: the IPv4 pattern matches a whole dotted quad if and only if each
\* of its four octets is the decimal numeral of a number from 0 to 255; a
\* quad with an octet above 255, such as 999.999.999.999, is not matched
C21_IPv4Range ==
    epc = "matchedIPv4" =>
        (found # <<>> <=>
            (Len(Quad) = 4 /\ \A k \in DOMAIN Quad : IsOctet(Quad[k])))

\* a quad with the octet 255 is matched
C21_Witness ==
    /\ epc = "matchedIPv4"
    /\ found # <<>>
    /\ \E k \in DOMAIN Quad : Quad[k] = <<"2", "5", "5">>
    /\ \E k \in DOMAIN Quad : Quad[k] = <<"0">>

-----------------------------------------------------------------------------
(* Where a match of the scheme-anchored form ends.                         *)

\* str ends with the closing delimiter of a balanced (), [] or {} group
EndsWithGroup(str) ==
    \E j \in 0..(Len(str) - 1) : Len(str) \in Ends(Compile(wellAll).re, str, j)

\* str ends with an end-of-segment character or with a balanced group
EndsAtBoundary(str) ==
    /\ str # <<>>
    /\ str[Len(str)] \in endIChar \/ EndsWithGroup(str)

\* "https://www.example.com"
CoolURL ==
    <<"h", "t", "t", "p", "s", ":", "/", "/", "w", "w", "w", ".", "e", "x",
      "a", "m", "p", "l", "e", ".", "c", "o", "m">>

\* "http://foo.com/a_(b)"
GroupURL ==
    <<"h", "t", "t", "p", ":", "/", "/", "f", "o", "o", ".", "c", "o", "m",
      "/", "a", "_", "(", "b", ")">>

-----------------------------------------------------------------------------
(* URLParser.Parse and addScheme.                                          *)

\* a Parse call of the URL parser has returned
URLReturned == call.pc = "returned"

\* u is absolute: a non-empty scheme followed by "://"
IsAbsolute(u) ==
    /\ getScheme(u).scheme # <<>>
    /\ HasPrefix(getScheme(u).rest, <<"/", "/">>)

\* "http://example.com/file.txt"
FileURL ==
    <<"h", "t", "t", "p", ":", "/", "/", "e", "x", "a", "m", "p", "l", "e",
      ".", "c", "o", "m", "/", "f", "i", "l", "e", ".", "t", "x", "t">>

\* C23: with a non-empty default scheme s, addScheme leaves an absolute
\* input as it is, and applying addScheme to its own result changes
\* nothing; Parse("http://example.com/file.txt") with default "https" has
\* scheme "http"
C23_AddSchemeIdempotent ==
    (URLReturned /\ scheme # <<>>) =>
        /\ IsAbsolute(call.unparsed) => call.inURL = call.unparsed
        /\ addScheme(call.inURL, scheme) = call.inURL
        /\ call.unparsed = FileURL => call.URL.Scheme = <<"h", "t", "t", "p">>

\* the example: the default scheme is "https" and the scheme stays "http"
C23_Witness ==
    /\ URLReturned
    /\ scheme = <<"h", "t", "t", "p", "s">>
    /\ call.unparsed = FileURL
    /\ call.inURL = FileURL
    /\ call.URL.Scheme = <<"h", "t", "t", "p">>

\* u includes a scheme: a name and ":" at its beginning
IncludesScheme(u) ==
    /\ getScheme(u).err = NoError
    /\ getScheme(u).scheme # <<>>

\* C24: with a non-empty default scheme s, Parse hands to url.Parse the
\* input itself when it includes a scheme, s + ":" + input when it begins
\* with "//", s + input when it begins with "://", and s + "://" + input
\* for every other input without a scheme
C24_PrependsIffSchemeless ==
    (URLReturned /\ scheme # <<>>) =>
        call.inURL =
            IF IncludesScheme(call.unparsed) THEN call.unparsed
            ELSE IF HasPrefix(call.unparsed, <<"/", "/">>)
                 THEN scheme \o <<":">> \o call.unparsed
            ELSE IF HasPrefix(call.unparsed, <<":", "/", "/">>)
                 THEN scheme \o call.unparsed
            ELSE scheme \o <<":", "/", "/">> \o call.unparsed

\* the IPv4 and IPv6 address literals among the hosts of the model's URLs
IPLiterals ==
    { <<"1", "9", "2", ".", "1", "6", "8", ".", "0", ".", "1">>,
      <<":", ":", "1">>,
      <<"2", "0", "0", "1", ":", "d", "b", "8", ":", ":", "1">> }

\* str ends with a colon and a port number
EndsWithPort(str) ==
    \E i \in 1..(Len(str) - 1) :
        /\ str[i] = ":"
        /\ \A j \in (i + 1)..Len(str) : str[j] \in digitCHaracterSet

\* str is enclosed in the brackets of an IPv6 literal
InBrackets(str) ==
    /\ Len(str) >= 2
    /\ str[1] = "["
    /\ str[Len(str)] = "]"

\* the host name of the URL a call returned
ReturnedHostname == URLHostname(call.URL.Host)

\* C25: when Parse returns without error, Domain is nil if and only if the
\* host name, without port and without the brackets of an IPv6 literal, is
\* an IPv4 or IPv6 address literal; for every other host name, the empty
\* one too, Domain is the record the domain parser returns for it
C25_DomainNilIffIP ==
    (URLReturned /\ call.err = <<>>) =>
        /\ call.Domain = 0 <=> ReturnedHostname \in IPLiterals
        /\ call.Domain # 0 =>
              /\ heap[call.Domain] = ParseDomain(sa, ReturnedHostname)
              /\ ~EndsWithPort(ReturnedHostname)
              /\ ~InBrackets(ReturnedHostname)

\* an IPv6 literal in brackets with a port: no Domain
C25_Witness ==
    /\ URLReturned
    /\ call.err = <<>>
    /\ call.URL.Host = <<"[", "2", "0", "0", "1", ":", "d", "b", "8", ":", ":", "1", "]", ":", "1", "7", "0", "0", "0">>
    /\ call.Domain = 0

\* "://example.com"
NoSchemeURL ==
    <<":", "/", "/", "e", "x", "a", "m", "p", "l", "e", ".", "c", "o", "m">>

\* a call whose url.Parse failed returned an error that begins with "error
\* parsing URL" and no Domain
FailedWithoutDomain ==
    (URLReturned /\ call.URL.err # NoError) =>
        /\ call.err # <<>>
        /\ call.err[1] = "error parsing URL: "
        /\ call.Domain = 0
        /\ heap = <<>>

\* C26: when url.Parse fails on the input, with the default scheme added if
\* there is one, Parse returns an error whose message contains "error
\* parsing URL" and a nil Domain, and the parser is left as it was: its
\* scheme and the index of its domain parser
C26_ErrorParsingURL ==
    /\ [](FailedWithoutDomain
            /\ ((URLReturned /\ scheme = <<>> /\ call.unparsed = NoSchemeURL)
                   => call.err # <<>>))
    /\ [][scheme' = scheme /\ sa' = sa /\ built' = built]_vars

\* Parse("://example.com") without a default scheme has failed
C26_Witness ==
    /\ URLReturned
    /\ scheme = <<>>
    /\ call.unparsed = NoSchemeURL
    /\ call.err = <<"error parsing URL: ", "missing protocol scheme">>
    /\ call.Domain = 0

\* the host, the authority and the forms (i) and (ii) that CompileRegex
\* composes when only the flags are set
FlagOnlyHost ==
    <<"(?:">> \o hostWithoutPortPattern \o ExtractorPortOptionalPattern
        \o <<")">>
FlagOnlyAuthority ==
    <<"(?:">> \o IUserInfoOptionalPattern \o FlagOnlyHost \o <<")">>
FlagOnlyI ==
    ExtractorSchemePattern \o FlagOnlyAuthority \o <<"?">> \o pathCont
FlagOnlyII ==
    FlagOnlyAuthority \o <<"(?:", "/">> \o pathCont \o <<"|", "/", ")", "?">>
        \o <<"|", "(?P<relaxedEmail>", "[a-zA-Z0-9._%\\-+]", "+", "@">>
        \o FlagOnlyHost \o <<")">>

\* the default pattern of the domain extractor
DefaultDomainPattern ==
    <<"(?:">> \o subdomainPattern \o knownTLDPattern
        \o <<"|", "l", "o", "c", "a", "l", "h", "o", "s", "t", ")">>

\* the hosts of the test of the empty patterns, and whether each is to match
EmptyPatternTests ==
    { <<<<"e", "x", "a", "m", "p", "l", "e", ".", "c", "o", "m">>, TRUE>>,
      <<<<"l", "o", "c", "a", "l", "h", "o", "s", "t">>, TRUE>>,
      <<<<"i", "n", "v", "a", "l", "i", "d", "_", "d", "o", "m", "a", "i", "n">>, FALSE>> }

\* C27: an empty override is no override: a URL extractor whose scheme or
\* host pattern was set to the empty string compiles the pattern of the
\* flags alone, and a domain extractor whose two patterns are empty compiles
\* the default pattern, which over the declared suffix list matches
\* "example.com" and "localhost" and not "invalid_domain"
C27_EmptyOverride ==
    /\ (/\ epc \in {"compiled", "found"}
        /\ withScheme \/ withHost
        /\ withSchemePattern = <<>>
        /\ withHostPattern = <<>>)
           => /\ regex.ok
              /\ regex.pattern =
                    IF withScheme THEN FlagOnlyI
                    ELSE FlagOnlyI \o <<"|">> \o FlagOnlyII
    /\ (/\ epc \in {"compiledDomain", "matched"}
        /\ domainExtractor.RootDomainPattern = <<>>
        /\ domainExtractor.TopLevelDomainPattern = <<>>)
           => /\ regex.ok
              /\ regex.pattern = DefaultDomainPattern
              /\ (epc = "matched" /\ tlds.Official = Official) =>
                     \A t \in EmptyPatternTests : text = t[1] => found = t[2]

\* a URL extractor whose scheme and host pattern were set to the empty
\* string has compiled form (i) of the flags alone
C27_Witness ==
    /\ epc = "compiled"
    /\ withScheme
    /\ withHost
    /\ withSchemePattern = <<>>
    /\ withHostPattern = <<>>
    /\ regex.pattern = FlagOnlyI

\* the suffixes of the list in use
Listed == Range(tlds.Official)

\* the host name "x." and the suffix
Under(s) == <<"x", ".">> \o s

\* C28: CompileRegex splits the official list at its first entry that begins
\* beyond ASCII into two parts that hold every listed suffix exactly once, and
\* the host name that ends with a listed suffix is matched as a whole, by the
\* domain extractor's default matcher and by the URL extractor's when a host
\* is required, also over a list with no entry beyond ASCII
C28_SuffixPartition ==
    /\ epc \in {"compiled", "found", "compiledDomain", "matched"} =>
           asciiTLDs(tlds.Official) \o unicodeTLDs(tlds.Official)
               = tlds.Official
    /\ (/\ epc = "matched"
        /\ domainExtractor.RootDomainPattern = <<>>
        /\ domainExtractor.TopLevelDomainPattern = <<>>)
           => \A s \in Listed :
                  text = Under(s) =>
                      /\ found = TRUE
                      /\ Find(regex, text, 0) = <<0, Len(text)>>
    /\ (epc = "found" /\ withHost /\ ~withScheme)
           => \A s \in Listed :
                  text = Under(s) =>
                      /\ Len(found) = 1
                      /\ found[1].str = text

\* C29: compiling a matcher, on the URL extractor or on the domain
\* extractor, leaves the suffix lists and the scheme lists as they were, the
\* same entries in the same order, although the pseudo suffixes are appended
\* to a slice of the official list
C29_TablesUnchanged ==
    /\ [](/\ tlds.Official \in OfficialLists
          /\ tlds.Pseudo = Pseudo
          /\ schemes.NoAuthority = NoAuthority)
    /\ [][tlds' = tlds /\ schemes' = schemes]_vars

\* the domain extractor's matcher has been compiled over the declared
\* lists, whose last entry is still the one beyond ASCII
C29_Witness ==
    /\ epc = "compiledDomain"
    /\ regex.ok
    /\ tlds.Official = Official
    /\ tlds.Official[Len(Official)] = <<UcsChar>>
    /\ tlds.Pseudo = Pseudo

\* the boundary index findTLDOffset returns for the host handed to Parse
Boundary == findTLDOffset(sa, Labels)

\* C30: when Parse returns a suffix for a host of n labels, the boundary
\* index k of findTLDOffset is between 0 and n - 2, the registrable domain is
\* the one label at index k and holds no dot, the subdomain is the labels
\* before k joined by dots and the suffix the labels after k joined by dots
C30_BoundaryIndex ==
    (Returned /\ parsed.TLD # <<>>) =>
        /\ Boundary >= 0
        /\ Boundary <= Len(Labels) - 2
        /\ parsed.SLD = Labels[Boundary + 1]
        /\ \A i \in DOMAIN parsed.SLD : parsed.SLD[i] # Dot
        /\ parsed.Subdomain = Join(SubSeq(Labels, 1, Boundary), Dot)
        /\ parsed.TLD =
              Join(SubSeq(Labels, Boundary + 2, Len(Labels)), Dot)

\* Parse has returned a subdomain, a registrable domain and a suffix of
\* one label each: the boundary index is 1 of a host of three labels
C30_Witness ==
    /\ Returned
    /\ NoEmptyLabel
    /\ Len(Labels) = 3
    /\ Boundary = 1
    /\ parsed.Subdomain = Labels[1]
    /\ parsed.SLD = Labels[2]
    /\ parsed.TLD = Labels[3]

====
